---------------------------- MODULE Spec2Model ----------------------------
(***************************************************************************)
(* Model of the canvas rendering engine of the team vacation calendar      *)
(* (src/js/calendar.js).  A render request is drawn in the initial state,  *)
(* generateCalendar is one action per view, and its result (the canvas,    *)
(* its logical size and the drawing operations issued on the 2D context)   *)
(* is the state the properties are stated on.  Further specifications     *)
(* over the same variables model overlapping generateCalendar calls with   *)
(* the font preparation (SpecCalls), the LocalStorage store of employees   *)
(* and vacations with the backup import (SpecStore), the holidays cache    *)
(* (SpecHolidays), the submit handler of the calendar form (SpecApp) and   *)
(* the concurrent handlers of the HTTP API (SpecApi).                      *)
(*                                                                         *)
(* Time.  A JavaScript Date is a time value; the model keeps it in hours   *)
(* since 2024-01-01T00:00Z (every time value of the program is a whole     *)
(* number of hours), so msPerDay is 24.  A calendar day is its day index   *)
(* since 2024-01-01.  The time zone of the browser is part of the          *)
(* environment: 'YYYY-MM-DDT00:00:00' is parsed as local midnight, while a *)
(* date-only 'YYYY-MM-DD' is parsed as UTC midnight.                       *)
(***************************************************************************)
EXTENDS Integers, Sequences, FiniteSets, TLC

VARIABLES
    tz,         \* the browser's time zone (environment)
    request,    \* the arguments of the generateCalendar call
    colorArg,   \* the argument of a parseHexColor call
    dayEntries, \* the vacation entries of one day cell (drawVacationDots)
    pc,         \* "call" before the operation has run, "done" after
    result,     \* what the operation returned and drew
    devicePixelRatio,  \* window.devicePixelRatio (environment); 0 when undefined
    hasDocumentFonts,  \* whether document.fonts exists (environment)
    fontLoad,          \* how FontFace.load() settles (environment)
    fontsLoaded,       \* the module-level flag of calendar.js
    fontLoads,         \* how often the font-loading step has been executed
    fontFaces,         \* the font faces added to document.fonts
    canvases,          \* the canvas elements created so far
    calls,             \* the generateCalendar calls in progress or finished
    storage,           \* LocalStorage: employees, vacations and the id counters
    storeOp,           \* the last operation on the store and what it returned
    holidaysCache,     \* LocalStorage: the holidays cache
    clock,             \* Date.now(), in days
    holidayCalls,      \* the getHolidaysForDateRange calls
    preview,           \* what the #calendar-preview element shows
    downloadLink,      \* href and download of the #download-png link
    actionsDisplay,    \* style.display of the #calendar-actions element
    foreignKeys,       \* whether SQLite enforces foreign keys (environment)
    db,                \* the tables of the HTTP API: employees and vacations
    handlers           \* the HTTP API handlers in progress or finished

renderVars == <<tz, request, colorArg, dayEntries, pc, result>>
callVars == <<devicePixelRatio, hasDocumentFonts, fontLoad, fontsLoaded, fontLoads,
              fontFaces, canvases, calls>>
storeVars == <<storage, storeOp>>
holidayVars == <<holidaysCache, clock, holidayCalls>>
appVars == <<preview, downloadLink, actionsDisplay>>
apiVars == <<foreignKeys, db, handlers>>
vars == <<renderVars, callVars, storeVars, holidayVars, appVars, apiVars>>

(***************************************************************************)
(* Constants of calendar.js                                                *)
(***************************************************************************)
LEFT_MARGIN == 150
TOP_MARGIN == 60
ROW_HEIGHT == 40
DAY_WIDTH == 30
HEADER_HEIGHT == 50
BOTTOM_PADDING == 20
LEGEND_ROW_HEIGHT == 25
LEGEND_PADDING == 30
LEGEND_BADGE_SIZE == 14
LEGEND_HEADER_HEIGHT == 45
WEEKEND_COLOR == "#F0F0F0"
GRID_COLOR == "#C8C8C8"
DEFAULT_EMPLOYEE_COLOR == <<"#", "3", "4", "9", "8", "d", "b">>
HOLIDAY_COLOR == "rgba(231, 76, 60, 0.25)"
HOLIDAY_BORDER_COLOR == "#e74c3c"
MONTH_NAMES == <<"Jan", "Feb", "Mar", "Apr", "May", "Jun",
                 "Jul", "Aug", "Sep", "Oct", "Nov", "Dec">>
PNG_SCALE == 2
MONTH_THRESHOLD_DAYS == 61
MONTHS_PER_ROW == 3
MONTH_GRID_PADDING == 20
MONTH_TITLE_HEIGHT == 30
WEEKDAY_HEADER_HEIGHT == 25
DAY_CELL_SIZE == 28
DOT_RADIUS == 4
DOT_SPACING == 2
MAX_DOTS_PER_ROW == 3
MAX_DOT_ROWS == 2
MONTH_HORIZONTAL_GAP == 30
MONTH_VERTICAL_GAP == 40
MIN_TIMELINE_WIDTH == 800
MIN_TIMELINE_HEIGHT == 200
MIN_MONTHLY_WIDTH == 600
MIN_MONTHLY_HEIGHT == 400
MAX_WEEK_ROWS == 6
msPerDay == 24

(***************************************************************************)
(* Bounds of the model                                                     *)
(***************************************************************************)
MaxEmployees == 2
MaxVacations == 2
MaxEntries == 8
MaxColorLen == 7
MaxCalls == 2
MaxIds == 3
MaxStored == 2
MaxHolidayCalls == 2
MaxClock == 9
MaxHandlers == 3
MaxRows == 2

Max(a, b) == IF a >= b THEN a ELSE b
Min(a, b) == IF a <= b THEN a ELSE b
CeilDiv(a, b) == (a + b - 1) \div b

(***************************************************************************)
(* The calendar (the Date built-in in local time).  Months are 0-based as  *)
(* in JavaScript.                                                          *)
(***************************************************************************)
EpochYear == 2024
Years == {2024, 2025, 2026}
EpochWeekday == 1

IsLeap(y) == (y % 4 = 0 /\ y % 100 # 0) \/ y % 400 = 0

DaysInMonth(y, m) ==
    IF m = 1 THEN (IF IsLeap(y) THEN 29 ELSE 28)
    ELSE IF m \in {3, 5, 8, 10} THEN 30 ELSE 31

\* days of a common year before each month
CumulativeDays == <<0, 31, 59, 90, 120, 151, 181, 212, 243, 273, 304, 334>>

DaysBeforeMonth(y, m) ==
    CumulativeDays[m + 1] + (IF IsLeap(y) /\ m >= 2 THEN 1 ELSE 0)

\* leap years before year y
LeapsBefore(y) == ((y - 1) \div 4) - ((y - 1) \div 100) + ((y - 1) \div 400)

DaysBeforeYear(y) ==
    (y - EpochYear) * 365 + LeapsBefore(y) - LeapsBefore(EpochYear)

\* new Date(year, month, day): the day index of a calendar date
DayNumber(y, m, d) == DaysBeforeYear(y) + DaysBeforeMonth(y, m) + d - 1

LastDay == DayNumber(2027, 0, 1) - 1
Days == 0..LastDay

YearOf(n) ==
    CHOOSE y \in Years : DaysBeforeYear(y) <= n /\ n < DaysBeforeYear(y + 1)
MonthOf(n) ==
    LET y == YearOf(n)
        k == n - DaysBeforeYear(y)
    IN  CHOOSE m \in 0..11 :
            DaysBeforeMonth(y, m) <= k /\ k < DaysBeforeMonth(y, m) + DaysInMonth(y, m)

\* the fields of every day, tabulated once
DateFields ==
    [n \in Days |-> [year |-> YearOf(n), month |-> MonthOf(n),
                     date |-> n - DayNumber(YearOf(n), MonthOf(n), 1) + 1]] @@ <<>>

getFullYear(n) == DateFields[n].year
getMonth(n) == DateFields[n].month
getDate(n) == DateFields[n].date
getDay(n) == (EpochWeekday + n) % 7     \* Sunday = 0 ... Saturday = 6

(***************************************************************************)
(* Time zones of the environment: UTC offset, in hours, that is in force   *)
(* at local midnight of day n.  Daylight saving time starts and ends at    *)
(* 02:00 local time, so the midnight of the transition day still has the   *)
(* old offset.                                                             *)
(***************************************************************************)
TimeZones == {"UTC", "Europe/Berlin", "America/New_York"}

\* the days on which daylight saving time starts and ends, 2024 to 2026
BerlinDst == << <<DayNumber(2024, 2, 31), DayNumber(2024, 9, 27)>>,
                <<DayNumber(2025, 2, 30), DayNumber(2025, 9, 26)>>,
                <<DayNumber(2026, 2, 29), DayNumber(2026, 9, 25)>> >>
NewYorkDst == << <<DayNumber(2024, 2, 10), DayNumber(2024, 10, 3)>>,
                 <<DayNumber(2025, 2, 9), DayNumber(2025, 10, 2)>>,
                 <<DayNumber(2026, 2, 8), DayNumber(2026, 10, 1)>> >>

\* the days whose local midnight is in daylight saving time
InDst(periods, n) == \E i \in 1..3 : periods[i][1] < n /\ n <= periods[i][2]

OffsetOf(zone, n) ==
    CASE zone = "UTC" -> 0
      [] zone = "Europe/Berlin" -> IF InDst(BerlinDst, n) THEN 2 ELSE 1
      [] zone = "America/New_York" -> IF InDst(NewYorkDst, n) THEN -4 ELSE -5

\* the offsets of every day, tabulated once
OffsetTable ==
    [zone \in TimeZones |-> [n \in -1..(LastDay + 1) |-> OffsetOf(zone, n)] @@ <<>>] @@ <<>>

UtcOffset(zone, n) == OffsetTable[zone][n]

\* An Invalid Date: its time value is NaN
NaN == -(10 ^ 6)
IsNaN(t) == t = NaN

\* A date string 'YYYY-MM-DD' is its day index; an unparseable string is Garbage
Garbage == -1
IsDateString(s) == s \in Days

\* new Date(s + 'T00:00:00'): local midnight of the day
ParseLocal(s, zone) ==
    IF IsDateString(s) THEN s * msPerDay - UtcOffset(zone, s) ELSE NaN

\* new Date(s) for a date-only string: UTC midnight of the day
ParseDateOnly(s) == IF IsDateString(s) THEN s * msPerDay ELSE NaN

\* The local calendar day a time value falls on (getFullYear/getMonth/getDate)
LocalDay(t, zone) ==
    CHOOSE n \in {(t \div msPerDay) - 1, t \div msPerDay, (t \div msPerDay) + 1} :
        /\ n * msPerDay - UtcOffset(zone, n) <= t
        /\ t < (n + 1) * msPerDay - UtcOffset(zone, n + 1)

\* new Date(year, month, day) as a time value
LocalMidnight(n, zone) == n * msPerDay - UtcOffset(zone, n)


(***************************************************************************)
(* Arithmetic and comparison of Number with NaN: an operation on NaN is    *)
(* NaN and a comparison with NaN is false.                                 *)
(***************************************************************************)
Sub(a, b) == IF IsNaN(a) \/ IsNaN(b) THEN NaN ELSE a - b
Add(a, b) == IF IsNaN(a) \/ IsNaN(b) THEN NaN ELSE a + b
Mul(a, b) == IF IsNaN(a) \/ IsNaN(b) THEN NaN ELSE a * b
Floor(a, b) == IF IsNaN(a) THEN NaN ELSE a \div b     \* Math.floor(a / b)
Less(a, b) == ~IsNaN(a) /\ ~IsNaN(b) /\ a < b
Greater(a, b) == ~IsNaN(a) /\ ~IsNaN(b) /\ a > b

(***************************************************************************)
(* Geometry primitives                                                     *)
(***************************************************************************)
calculateDays(from, to) == Add(Floor(Sub(to, from), msPerDay), 1)

isWeekend(n) == getDay(n) = 0 \/ getDay(n) = 6

shouldUseMonthlyGridView_off(fromDate, toDate) ==
    ~Less(calculateDays(fromDate, toDate), MONTH_THRESHOLD_DAYS)
        /\ ~IsNaN(calculateDays(fromDate, toDate))
shouldUseMonthlyGridView(fromDate, toDate) ==
    Greater(calculateDays(fromDate, toDate), MONTH_THRESHOLD_DAYS)

getFirstDayOfWeek(year, month) ==
    IF getDay(DayNumber(year, month, 1)) = 0 THEN 6
    ELSE getDay(DayNumber(year, month, 1)) - 1

\* formatDateKey: the 'YYYY-MM-DD' string of the local date of a time value
formatDateKey(t, zone) ==
    LET n == LocalDay(t, zone)
    IN  DayNumber(getFullYear(n), getMonth(n), getDate(n))

\* Strings that the code inspects character by character are sequences of
\* one-character strings.
parseHexColor(hex) ==
    IF Len(hex) = 0 THEN DEFAULT_EMPLOYEE_COLOR
    ELSE LET h == IF hex[1] = "#" THEN Tail(hex) ELSE hex
         IN  IF Len(h) # 6 THEN DEFAULT_EMPLOYEE_COLOR
             ELSE <<"#">> \o h

(***************************************************************************)
(* getMonthsInRange                                                        *)
(***************************************************************************)
MonthRecord(year, month) ==
    [year |-> year, month |-> month, name |-> MONTH_NAMES[month + 1],
     daysInMonth |-> DaysInMonth(year, month),
     firstDayOfWeek |-> getFirstDayOfWeek(year, month)]

\* the while loop: current is the first day of (year, month)
RECURSIVE MonthsLoop(_, _, _, _)
MonthsLoop(year, month, endMonth, zone) ==
    IF LocalMidnight(DayNumber(year, month, 1), zone) <= endMonth
    THEN <<MonthRecord(year, month)>> \o
         (IF month = 11 THEN MonthsLoop(year + 1, 0, endMonth, zone)
          ELSE MonthsLoop(year, month + 1, endMonth, zone))
    ELSE <<>>

getMonthsInRange_skipLast(fromDate, toDate, zone) ==
    MonthsLoop(getFullYear(LocalDay(fromDate, zone)),
               getMonth(LocalDay(fromDate, zone)),
               LocalMidnight(DayNumber(getFullYear(LocalDay(toDate, zone)),
                                       getMonth(LocalDay(toDate, zone)), 1), zone) - 1,
               zone)
getMonthsInRange(fromDate, toDate, zone) ==
    MonthsLoop(getFullYear(LocalDay(fromDate, zone)),
               getMonth(LocalDay(fromDate, zone)),
               LocalMidnight(DayNumber(getFullYear(LocalDay(toDate, zone)),
                                       getMonth(LocalDay(toDate, zone)), 1), zone),
               zone)

(***************************************************************************)
(* Input records.  A vacation carries the employee joined by the store     *)
(* (getVacations), or null.  v.employee?.color and v.employee?.name are    *)
(* undefined for null, and undefined, like the empty string, is falsy: the *)
(* null employee is the record with the empty name and the empty color.    *)
(***************************************************************************)
NullEmployee == [id |-> 0, name |-> "", color |-> <<>>]

EmployeeName(employee) == IF employee.name = "" THEN "Unknown" ELSE employee.name

(***************************************************************************)
(* buildHolidayMap and buildVacationDayMap                                 *)
(***************************************************************************)
\* Map.set(h.date, h) for each holiday in order: the last one of a date stays
RECURSIVE SetHolidays(_, _)
SetHolidays(map, holidays) ==
    IF holidays = <<>> THEN map
    ELSE SetHolidays((Head(holidays).date :> Head(holidays)) @@ map, Tail(holidays))

buildHolidayMap(holidays) == SetHolidays(<<>>, holidays)

DayEntry(v) ==
    [empId |-> v.employee_id,
     color |-> parseHexColor(v.employee.color),
     name |-> EmployeeName(v.employee)]

\* map.get(key) || []
EntriesOn(dayMap, key) == IF key \in DOMAIN dayMap THEN dayMap[key] ELSE <<>>

\* dayMap.get(dateKey).push(entry), after dayMap.set(dateKey, []) for a new key
PushEntry(dayMap, key, entry) ==
    (key :> Append(EntriesOn(dayMap, key), entry)) @@ dayMap

\* the while loop of one vacation: current runs over the local days up to end
RECURSIVE PushDays(_, _, _, _, _)
PushDays(dayMap, v, current, end, zone) ==
    IF LocalMidnight(current, zone) <= end
    THEN PushDays(PushEntry(dayMap, formatDateKey(LocalMidnight(current, zone), zone),
                            DayEntry(v)),
                  v, current + 1, end, zone)
    ELSE dayMap

\* vacations.forEach
RECURSIVE PushVacations(_, _, _)
PushVacations(dayMap, vacations, zone) ==
    IF vacations = <<>> THEN dayMap
    ELSE PushVacations(
             PushDays(dayMap, Head(vacations),
                      LocalDay(ParseLocal(Head(vacations).start_date, zone), zone),
                      ParseLocal(Head(vacations).end_date, zone), zone),
             Tail(vacations), zone)

buildVacationDayMap(vacations, zone) == PushVacations(<<>>, vacations, zone)

(***************************************************************************)
(* drawVacationDots: the dots (arc + fill) and the '+' glyph of a cell     *)
(***************************************************************************)
\* the inner for loop of one sub-row; returns the dots drawn from dotIndex on
RECURSIVE DotColumns(_, _, _, _, _, _, _, _)
DotColumns(vacations, row, col, dotIndex, dotsInThisRow, maxDotsToShow, rowStartX, dotAreaY) ==
    IF col < dotsInThisRow /\ dotIndex < maxDotsToShow
    THEN <<[x |-> rowStartX + col * (DOT_RADIUS * 2 + DOT_SPACING),
            y |-> dotAreaY + row * (DOT_RADIUS * 2 + DOT_SPACING),
            row |-> row, col |-> col,
            color |-> vacations[dotIndex + 1].color]>>
         \o DotColumns(vacations, row, col + 1, dotIndex + 1, dotsInThisRow,
                       maxDotsToShow, rowStartX, dotAreaY)
    ELSE <<>>

\* the outer for loop over the sub-rows
RECURSIVE DotRows(_, _, _, _, _, _, _)
DotRows(vacations, row, dotIndex, totalRows, maxDotsToShow, dotAreaX, dotAreaY) ==
    IF row < totalRows /\ dotIndex < Len(vacations)
    THEN LET dotsInThisRow == Min(Len(vacations) - dotIndex, MAX_DOTS_PER_ROW)
             rowWidth == dotsInThisRow * (DOT_RADIUS * 2 + DOT_SPACING) - DOT_SPACING
             rowStartX == dotAreaX - (rowWidth \div 2) + DOT_RADIUS
             drawn == DotColumns(vacations, row, 0, dotIndex, dotsInThisRow,
                                 maxDotsToShow, rowStartX, dotAreaY)
         IN  drawn \o DotRows(vacations, row + 1, dotIndex + Len(drawn), totalRows,
                              maxDotsToShow, dotAreaX, dotAreaY)
    ELSE <<>>

drawVacationDots_oneRow(cellX, cellY, vacations) ==
    LET totalRows == Min(CeilDiv(Len(vacations), MAX_DOTS_PER_ROW), 1)
        maxDotsToShow == totalRows * MAX_DOTS_PER_ROW
    IN  [dots |-> DotRows(vacations, 0, 0, totalRows, maxDotsToShow,
                          cellX + DAY_CELL_SIZE \div 2, cellY + 14),
         plus |-> Len(vacations) > maxDotsToShow]
drawVacationDots(cellX, cellY, vacations) ==
    LET totalRows == Min(CeilDiv(Len(vacations), MAX_DOTS_PER_ROW), MAX_DOT_ROWS)
        maxDotsToShow == totalRows * MAX_DOTS_PER_ROW
    IN  [dots |-> DotRows(vacations, 0, 0, totalRows, maxDotsToShow,
                          cellX + DAY_CELL_SIZE \div 2, cellY + 14),
         plus |-> Len(vacations) > maxDotsToShow]

NoDots == [dots |-> <<>>, plus |-> FALSE]

(***************************************************************************)
(* drawDayCell, drawMonthGrid, drawMonthlyGridView                         *)
(***************************************************************************)
drawDayCell_noRangeTest(x, y, dayNum, isWeekendDay, isHolidayDay, isInRange, vacations) ==
    [day |-> dayNum, x |-> x, y |-> y, inRange |-> isInRange,
     fill |-> IF isHolidayDay THEN HOLIDAY_COLOR
              ELSE IF isWeekendDay THEN WEEKEND_COLOR
              ELSE "white",
     stroke |-> IF isHolidayDay THEN HOLIDAY_BORDER_COLOR ELSE GRID_COLOR,
     text |-> "black",
     marks |-> IF Len(vacations) > 0
               THEN drawVacationDots(x, y, vacations) ELSE NoDots]
drawDayCell(x, y, dayNum, isWeekendDay, isHolidayDay, isInRange, vacations) ==
    [day |-> dayNum, x |-> x, y |-> y, inRange |-> isInRange,
     fill |-> IF ~isInRange THEN "#F5F5F5"
              ELSE IF isHolidayDay THEN HOLIDAY_COLOR
              ELSE IF isWeekendDay THEN WEEKEND_COLOR
              ELSE "white",
     stroke |-> IF isHolidayDay /\ isInRange THEN HOLIDAY_BORDER_COLOR ELSE GRID_COLOR,
     text |-> IF isInRange THEN "black" ELSE "#BBB",
     marks |-> IF isInRange /\ Len(vacations) > 0
               THEN drawVacationDots(x, y, vacations) ELSE NoDots]

WeekRowAt_fromZero(month, dayNum) ==
    Cardinality({d \in 0..(dayNum - 1) : (month.firstDayOfWeek + d - 1) % 7 = 6})
\* weekRow when the while loop reaches dayNum: it has been incremented once
\* for every earlier day drawn in the Sunday column
WeekRowAt(month, dayNum) ==
    Cardinality({d \in 1..(dayNum - 1) : (month.firstDayOfWeek + d - 1) % 7 = 6})

\* the while loop over the days of the month
DayCells(month, x, cellStartY, vacationDayMap, rangeFrom, rangeTo, holidayMap, zone) ==
    [dayNum \in 1..month.daysInMonth |->
        LET dayOfWeek == (month.firstDayOfWeek + dayNum - 1) % 7
            currentDate == LocalMidnight(DayNumber(month.year, month.month, dayNum), zone)
            dateKey == formatDateKey(currentDate, zone)
        IN  drawDayCell(x + dayOfWeek * DAY_CELL_SIZE,
                        cellStartY + WeekRowAt(month, dayNum) * DAY_CELL_SIZE,
                        dayNum,
                        dayOfWeek >= 5,
                        dateKey \in DOMAIN holidayMap,
                        currentDate >= rangeFrom /\ currentDate <= rangeTo,
                        EntriesOn(vacationDayMap, dateKey))]

\* drawEmptyDayCell for the days before the month starts (first row) and
\* for the rest of the last row, which is weekRow when the while loop ends
EmptyCells(month, x, cellStartY) ==
    LET lastDayOfWeek == (month.firstDayOfWeek + month.daysInMonth - 1) % 7
        weekRow == WeekRowAt(month, month.daysInMonth + 1)
    IN  [i \in 1..month.firstDayOfWeek |->
            [x |-> x + (i - 1) * DAY_CELL_SIZE, y |-> cellStartY]]
        \o (IF lastDayOfWeek < 6
            THEN [k \in 1..(6 - lastDayOfWeek) |->
                    [x |-> x + (lastDayOfWeek + k) * DAY_CELL_SIZE,
                     y |-> cellStartY + weekRow * DAY_CELL_SIZE]]
            ELSE <<>>)

drawMonthGrid(month, x, y, vacationDayMap, rangeFrom, rangeTo, holidayMap, zone) ==
    [year |-> month.year, month |-> month.month, x |-> x, y |-> y,
     leading |-> month.firstDayOfWeek,
     emptyCells |-> EmptyCells(month, x, y + MONTH_TITLE_HEIGHT + WEEKDAY_HEADER_HEIGHT),
     cells |-> DayCells(month, x, y + MONTH_TITLE_HEIGHT + WEEKDAY_HEADER_HEIGHT,
                        vacationDayMap, rangeFrom, rangeTo, holidayMap, zone),
     trailing |-> 6 - ((month.firstDayOfWeek + month.daysInMonth - 1) % 7)]

\* the row, column and origin of the tile with a given index
TilePlace(index, monthWidth, monthHeight) ==
    [row |-> index \div MONTHS_PER_ROW, col |-> index % MONTHS_PER_ROW,
     x |-> MONTH_GRID_PADDING + (index % MONTHS_PER_ROW) * (monthWidth + MONTH_HORIZONTAL_GAP),
     y |-> TOP_MARGIN + (index \div MONTHS_PER_ROW) * (monthHeight + MONTH_VERTICAL_GAP)]

drawMonthlyGridView(months, dimensions, vacationDayMap, rangeFrom, rangeTo, holidayMap, zone) ==
    [i \in DOMAIN months |->
        LET place == TilePlace(i - 1, dimensions.monthWidth, dimensions.monthHeight)
        IN  [row |-> place.row, col |-> place.col,
             grid |-> drawMonthGrid(months[i], place.x, place.y, vacationDayMap,
                                    rangeFrom, rangeTo, holidayMap, zone)]]

(***************************************************************************)
(* Dimension planner                                                       *)
(***************************************************************************)
LegendHeight_flat(count) ==
    IF count > 0 THEN LEGEND_PADDING + LEGEND_HEADER_HEIGHT + LEGEND_ROW_HEIGHT ELSE 0
\* the height of a legend block of count rows (vacations or holidays)
LegendHeight(count) ==
    IF count > 0
    THEN LEGEND_PADDING + LEGEND_HEADER_HEIGHT + count * LEGEND_ROW_HEIGHT
    ELSE 0

calculateMonthlyGridDimensions(months, vacationCount, holidayCount) ==
    LET numRows == CeilDiv(Len(months), MONTHS_PER_ROW)
        numCols == Min(Len(months), MONTHS_PER_ROW)
        monthWidth == 7 * DAY_CELL_SIZE
        monthHeight == MONTH_TITLE_HEIGHT + WEEKDAY_HEADER_HEIGHT
                         + MAX_WEEK_ROWS * DAY_CELL_SIZE
        gridWidth == numCols * monthWidth + (numCols - 1) * MONTH_HORIZONTAL_GAP
        gridHeight == numRows * monthHeight + (numRows - 1) * MONTH_VERTICAL_GAP
        vacationLegendHeight == LegendHeight(vacationCount)
        holidayLegendHeight == LegendHeight(holidayCount)
        width == MONTH_GRID_PADDING * 2 + gridWidth
        height == TOP_MARGIN + gridHeight + BOTTOM_PADDING + vacationLegendHeight
                    + holidayLegendHeight + MONTH_GRID_PADDING
    IN  [width |-> Max(width, MIN_MONTHLY_WIDTH),
         height |-> Max(height, MIN_MONTHLY_HEIGHT),
         monthWidth |-> monthWidth, monthHeight |-> monthHeight,
         gridWidth |-> gridWidth, gridHeight |-> gridHeight,
         numRows |-> numRows, numCols |-> numCols,
         vacationLegendHeight |-> vacationLegendHeight]

\* width and height of generateTimelineCalendar; NaN < 800 is false
TimelineWidth(days) ==
    LET width == Add(Add(LEFT_MARGIN, Mul(days, DAY_WIDTH)), 20)
    IN  IF Less(width, MIN_TIMELINE_WIDTH) THEN MIN_TIMELINE_WIDTH ELSE width

TimelineHeight_noHolidays(employeeCount, vacationCount, holidayCount) ==
    LET height == TOP_MARGIN + HEADER_HEIGHT + employeeCount * ROW_HEIGHT
                    + BOTTOM_PADDING + LegendHeight(vacationCount)
    IN  IF height < MIN_TIMELINE_HEIGHT THEN MIN_TIMELINE_HEIGHT ELSE height
TimelineHeight(employeeCount, vacationCount, holidayCount) ==
    LET height == TOP_MARGIN + HEADER_HEIGHT + employeeCount * ROW_HEIGHT
                    + BOTTOM_PADDING + LegendHeight(vacationCount)
                    + LegendHeight(holidayCount)
    IN  IF height < MIN_TIMELINE_HEIGHT THEN MIN_TIMELINE_HEIGHT ELSE height

(***************************************************************************)
(* Timeline renderer                                                       *)
(***************************************************************************)
\* the columns i = 0 .. days-1 of the for loops; none when days is NaN or < 1
Columns(days) == IF IsNaN(days) \/ days < 1 THEN <<>> ELSE [k \in 1..days |-> k - 1]

\* new Date(fromDate); date.setDate(date.getDate() + i): the local day of column i
ColumnDay(fromDate, i, zone) == LocalDay(fromDate, zone) + i

drawWeekendBackground(fromDate, days, employeeCount, zone) ==
    LET IsWeekendColumn(i) == isWeekend(ColumnDay(fromDate, i, zone))
    IN  SelectSeq(Columns(days), IsWeekendColumn)

drawHolidayBackground(fromDate, days, employeeCount, holidayMap, zone) ==
    LET IsHolidayColumn(i) ==
            formatDateKey(LocalMidnight(ColumnDay(fromDate, i, zone), zone), zone)
                \in DOMAIN holidayMap
    IN  SelectSeq(Columns(days), IsHolidayColumn)

drawDateHeaders(fromDate, days, zone) ==
    [k \in DOMAIN Columns(days) |->
        LET n == ColumnDay(fromDate, k - 1, zone)
        IN  [col |-> k - 1, day |-> getDate(n),
             month |-> IF getDate(n) = 1 \/ k - 1 = 0
                       THEN MONTH_NAMES[getMonth(n) + 1] ELSE ""]]

\* roundRect(ctx, x + 2, barY, w - 4, h, 5) and ctx.fill() of one vacation
drawVacationBar(startDate, endDate, fromDate, toDate, y, color) ==
    LET start0 == ParseDateOnly(startDate)
        end0 == ParseDateOnly(endDate)
        start == IF Less(start0, fromDate) THEN fromDate ELSE start0
        end == IF Greater(end0, toDate) THEN toDate ELSE end0
        startDay == Floor(Sub(start, fromDate), msPerDay)
        endDay == Add(Floor(Sub(end, fromDate), msPerDay), 1)
    IN  [start |-> startDate, end |-> endDate,
         startDay |-> startDay, endDay |-> endDay,
         x |-> Add(Add(LEFT_MARGIN, Mul(startDay, DAY_WIDTH)), 2),
         y |-> y + 5,
         w |-> Sub(Mul(Sub(endDay, startDay), DAY_WIDTH), 4),
         h |-> ROW_HEIGHT - 10,
         color |-> color]

\* vacationMap.get(emp.id) || []: the vacations of an employee id, in order
VacationsOf(vacations, empId) ==
    LET Mine(v) == v.employee_id = empId
    IN  SelectSeq(vacations, Mine)

drawEmployeeRows(employees, vacations, fromDate, toDate, days) ==
    [i \in DOMAIN employees |->
        LET y == TOP_MARGIN + HEADER_HEIGHT + (i - 1) * ROW_HEIGHT
            empVacations == VacationsOf(vacations, employees[i].id)
        IN  [name |-> employees[i].name, y |-> y, empId |-> employees[i].id,
             bars |-> [j \in DOMAIN empVacations |->
                         drawVacationBar(empVacations[j].start_date,
                                         empVacations[j].end_date,
                                         fromDate, toDate, y,
                                         parseHexColor(employees[i].color))]]]

(***************************************************************************)
(* Drawing operations of the Timeline layers, in the order issued          *)
(***************************************************************************)
DrawOp(layer, col, row) == [layer |-> layer, col |-> col, row |-> row]

\* employees.forEach of drawEmployeeRows: the name, then the bars of the row
RECURSIVE RowOps(_, _)
RowOps(rows, i) ==
    IF i > Len(rows) THEN <<>>
    ELSE <<DrawOp("name", -1, i - 1)>>
         \o [j \in DOMAIN rows[i].bars |-> DrawOp("bar", j - 1, i - 1)]
         \o RowOps(rows, i + 1)

\* drawGrid: the vertical lines i = 0 .. days, then the horizontal lines
drawGrid(days, employeeCount) ==
    (IF IsNaN(days) \/ days < 0 THEN <<>>
     ELSE [k \in 1..(days + 1) |-> DrawOp("grid", k - 1, -1)])
    \o [k \in 1..(employeeCount + 1) |-> DrawOp("grid", -1, k - 1)]

TimelineOps_gridFirst(weekend, holiday, headers, rows, days, employeeCount) ==
    <<DrawOp("background", -1, -1), DrawOp("title", -1, -1)>>
    \o drawGrid(days, employeeCount)
    \o [k \in DOMAIN holiday |-> DrawOp("holiday", holiday[k], -1)]
    \o [k \in DOMAIN weekend |-> DrawOp("weekend", weekend[k], -1)]
    \o [k \in DOMAIN headers |-> DrawOp("header", headers[k].col, -1)]
    \o RowOps(rows, 1)
\* "Draw all layers in order" of generateTimelineCalendar
TimelineOps(weekend, holiday, headers, rows, days, employeeCount) ==
    <<DrawOp("background", -1, -1), DrawOp("title", -1, -1)>>
    \o [k \in DOMAIN weekend |-> DrawOp("weekend", weekend[k], -1)]
    \o [k \in DOMAIN holiday |-> DrawOp("holiday", holiday[k], -1)]
    \o [k \in DOMAIN headers |-> DrawOp("header", headers[k].col, -1)]
    \o RowOps(rows, 1)
    \o drawGrid(days, employeeCount)

(***************************************************************************)
(* Legend composer                                                         *)
(***************************************************************************)
\* formatLegendDate: short month and day of the local date of the string
formatLegendDate(dateStr, zone) ==
    LET n == LocalDay(ParseLocal(dateStr, zone), zone)
    IN  <<MONTH_NAMES[getMonth(n) + 1], getDate(n)>>

drawLegend(vacations, startY, zone) ==
    [i \in DOMAIN vacations |->
        [y |-> startY + LEGEND_HEADER_HEIGHT + (i - 1) * LEGEND_ROW_HEIGHT,
         color |-> parseHexColor(vacations[i].employee.color),
         name |-> EmployeeName(vacations[i].employee),
         from |-> formatLegendDate(vacations[i].start_date, zone),
         to |-> formatLegendDate(vacations[i].end_date, zone),
         description |-> vacations[i].description]]

\* vacationsByEmployee: the keys of the Map in insertion (first-seen) order
RECURSIVE FirstSeen(_, _)
FirstSeen(vacations, seen) ==
    IF vacations = <<>> THEN <<>>
    ELSE IF Head(vacations).employee_id \in seen
         THEN FirstSeen(Tail(vacations), seen)
         ELSE <<Head(vacations)>>
              \o FirstSeen(Tail(vacations), seen \cup {Head(vacations).employee_id})

GroupRange(v, zone) ==
    [from |-> formatLegendDate(v.start_date, zone),
     to |-> formatLegendDate(v.end_date, zone),
     description |-> v.description]

drawMonthlyLegend_perVacation(vacations, startY, zone) ==
    [r \in DOMAIN vacations |->
        [y |-> startY + LEGEND_HEADER_HEIGHT + (r - 1) * LEGEND_ROW_HEIGHT,
         empId |-> vacations[r].employee_id,
         color |-> parseHexColor(vacations[r].employee.color),
         name |-> EmployeeName(vacations[r].employee),
         ranges |-> <<GroupRange(vacations[r], zone)>>]]
drawMonthlyLegend(vacations, startY, zone) ==
    LET groups == FirstSeen(vacations, {})
    IN  [r \in DOMAIN groups |->
            LET mine == VacationsOf(vacations, groups[r].employee_id)
            IN  [y |-> startY + LEGEND_HEADER_HEIGHT + (r - 1) * LEGEND_ROW_HEIGHT,
                 empId |-> groups[r].employee_id,
                 color |-> parseHexColor(groups[r].employee.color),
                 name |-> EmployeeName(groups[r].employee),
                 ranges |-> [j \in DOMAIN mine |-> GroupRange(mine[j], zone)]]]

drawHolidayLegend(holidays, startY, zone) ==
    [i \in DOMAIN holidays |->
        [y |-> startY + LEGEND_HEADER_HEIGHT + (i - 1) * LEGEND_ROW_HEIGHT,
         date |-> formatLegendDate(holidays[i].date, zone),
         name |-> holidays[i].name]]

(***************************************************************************)
(* generateMonthlyGridCalendar, generateTimelineCalendar                   *)
(***************************************************************************)
\* const dpr = Math.max(window.devicePixelRatio || 1, PNG_SCALE)
CanvasScale(ratio) == Max(IF ratio = 0 THEN 1 ELSE ratio, PNG_SCALE)

\* canvas.width = value: the attribute of a canvas is 0 for NaN
CanvasSize(value) == IF IsNaN(value) THEN 0 ELSE value

generateMonthlyGridCalendar(fromDate, toDate, employees, vacations, holidayMap, holidays, zone, ratio) ==
    LET months == getMonthsInRange(fromDate, toDate, zone)
        dimensions == calculateMonthlyGridDimensions(months, Len(vacations), Len(holidays))
        vacationDayMap == buildVacationDayMap(vacations, zone)
        vacationLegendStartY == TOP_MARGIN + dimensions.gridHeight + BOTTOM_PADDING
        holidayLegendStartY == vacationLegendStartY + dimensions.vacationLegendHeight
    IN  [returned |-> TRUE, threw |-> "", canvas |-> TRUE, dataUrl |-> TRUE,
         view |-> "monthly",
         days |-> calculateDays(fromDate, toDate),
         width |-> dimensions.width, height |-> dimensions.height,
         pixelWidth |-> CanvasSize(Mul(dimensions.width, CanvasScale(ratio))),
         pixelHeight |-> CanvasSize(Mul(dimensions.height, CanvasScale(ratio))),
         months |-> months,
         tiles |-> drawMonthlyGridView(months, dimensions, vacationDayMap,
                                       fromDate, toDate, holidayMap, zone),
         rows |-> <<>>, weekend |-> <<>>, holiday |-> <<>>, headers |-> <<>>,
         ops |-> <<>>,
         legend |-> drawMonthlyLegend(vacations, vacationLegendStartY, zone),
         holidayLegend |-> drawHolidayLegend(holidays, holidayLegendStartY, zone)]

generateTimelineCalendar(fromDate, toDate, employees, vacations, holidayMap, holidays, zone, ratio) ==
    LET days == calculateDays(fromDate, toDate)
        vacationLegendHeight == LegendHeight(Len(vacations))
        vacationLegendStartY == TOP_MARGIN + HEADER_HEIGHT + Len(employees) * ROW_HEIGHT
                                  + BOTTOM_PADDING
        holidayLegendStartY == vacationLegendStartY + vacationLegendHeight
        weekend == drawWeekendBackground(fromDate, days, Len(employees), zone)
        holiday == drawHolidayBackground(fromDate, days, Len(employees), holidayMap, zone)
        headers == drawDateHeaders(fromDate, days, zone)
        rows == drawEmployeeRows(employees, vacations, fromDate, toDate, days)
    IN  [returned |-> TRUE, threw |-> "", canvas |-> TRUE, dataUrl |-> TRUE,
         view |-> "timeline",
         days |-> days,
         width |-> TimelineWidth(days),
         height |-> TimelineHeight(Len(employees), Len(vacations), Len(holidays)),
         pixelWidth |-> CanvasSize(Mul(TimelineWidth(days), CanvasScale(ratio))),
         pixelHeight |-> CanvasSize(Mul(TimelineHeight(Len(employees), Len(vacations),
                                                       Len(holidays)), CanvasScale(ratio))),
         months |-> <<>>, tiles |-> <<>>,
         weekend |-> weekend,
         holiday |-> holiday,
         headers |-> headers,
         rows |-> rows,
         ops |-> TimelineOps(weekend, holiday, headers, rows, days, Len(employees)),
         legend |-> drawLegend(vacations, vacationLegendStartY, zone),
         holidayLegend |-> drawHolidayLegend(holidays, holidayLegendStartY, zone)]

(***************************************************************************)
(* The requests of the model                                               *)
(***************************************************************************)
Alice == [id |-> 1, name |-> "Alice", color |-> <<"#", "F", "F", "0", "0", "0", "0">>]
Bob == [id |-> 2, name |-> "Bob", color |-> <<"n", "o", "t", "a", "c", "o", "l", "o", "r">>]
Carol == [id |-> 3, name |-> "Carol", color |-> <<"0", "0", "a", "a", "0", "0">>]
Roster == <<Alice, Bob, Carol>>

Window(fromY, fromM, fromD, toY, toM, toD) ==
    [from |-> DayNumber(fromY, fromM, fromD), to |-> DayNumber(toY, toM, toD)]

Windows ==
    { Window(2025, 5, 1, 2025, 5, 10),      \* 10 days
      Window(2025, 5, 1, 2025, 5, 1),       \* one day
      Window(2025, 5, 10, 2025, 5, 9),      \* to the day before from
      Window(2025, 5, 10, 2025, 5, 1),      \* to before from
      Window(2025, 0, 1, 2025, 2, 31),      \* January to March
      Window(2025, 6, 1, 2025, 7, 30),      \* 61 days
      Window(2025, 6, 1, 2025, 7, 31),      \* 62 days
      Window(2025, 2, 1, 2025, 3, 30),      \* 61 days across the start of DST
      Window(2025, 2, 1, 2025, 4, 1),       \* 62 days across the start of DST
      Window(2025, 5, 15, 2025, 8, 20),     \* partial first and last month
      Window(2025, 9, 20, 2025, 10, 5),     \* across the end of DST
      Window(2025, 10, 15, 2026, 1, 10),    \* across the new year
      [from |-> Garbage, to |-> DayNumber(2025, 5, 10)],
      [from |-> DayNumber(2025, 5, 1), to |-> Garbage] }

\* the days the vacations and holidays of a request are placed around
AnchorFrom(w) == IF IsDateString(w.from) THEN w.from ELSE DayNumber(2025, 5, 1)
AnchorTo(w) == IF IsDateString(w.to) THEN w.to ELSE DayNumber(2025, 5, 10)

Vacation(id, employee_id, employee, start, end, description) ==
    [id |-> id, employee_id |-> employee_id, employee |-> employee,
     start_date |-> start, end_date |-> end, description |-> description]

VacationPool(w) ==
    { Vacation(1, 1, Alice, AnchorFrom(w) + 4, AnchorFrom(w) + 6, ""),
      Vacation(2, 1, Alice, AnchorFrom(w) - 3, AnchorFrom(w) - 1, "trip"),
      Vacation(3, 2, Bob, AnchorTo(w) - 1, AnchorTo(w) + 2, ""),
      Vacation(4, 7, NullEmployee, AnchorFrom(w) + 1, AnchorFrom(w) + 2, ""),
      Vacation(5, 2, Bob, AnchorTo(w) + 1, AnchorTo(w) + 3, "") }

\* the holiday lists of a request: none, one inside the window, and one after
\* the window followed by one inside it
HolidayLists(w) ==
    { <<>>,
      <<[date |-> AnchorFrom(w) + 6, name |-> "Holiday A"]>>,
      <<[date |-> AnchorTo(w) + 1, name |-> "Holiday B"],
        [date |-> AnchorFrom(w) + 6, name |-> "Holiday A"]>> }

SeqsUpTo(S, n) == UNION {[1..k -> S] : k \in 0..n}

Requests ==
    UNION { [fromDateStr : {w.from}, toDateStr : {w.to},
             employees : {SubSeq(Roster, 1, k) : k \in 0..Min(MaxEmployees, Len(Roster))},
             vacations : SeqsUpTo(VacationPool(w), MaxVacations),
             holidays : HolidayLists(w)] : w \in Windows }

NoRequest == [fromDateStr |-> Garbage, toDateStr |-> Garbage, employees |-> <<>>,
              vacations |-> <<>>, holidays |-> <<>>]
NoResult == [returned |-> FALSE]

(***************************************************************************)
(* generateCalendar                                                        *)
(***************************************************************************)
Render(req, zone, ratio) ==
    LET fromDate == ParseLocal(req.fromDateStr, zone)
        toDate == ParseLocal(req.toDateStr, zone)
        holidayMap == buildHolidayMap(req.holidays)
    IN  IF shouldUseMonthlyGridView(fromDate, toDate)
        THEN generateMonthlyGridCalendar(fromDate, toDate, req.employees,
                 req.vacations, holidayMap, req.holidays, zone, ratio)
        ELSE generateTimelineCalendar(fromDate, toDate, req.employees,
                 req.vacations, holidayMap, req.holidays, zone, ratio)

\* a call that finds the fonts prepared: ensureFontsLoaded returns at once
generateCalendar ==
    /\ pc = "call"
    /\ fontsLoaded
    /\ result' = Render(request, tz, devicePixelRatio)
    /\ canvases' = canvases + 1
    /\ pc' = "done"
    /\ UNCHANGED <<tz, request, colorArg, dayEntries>>
    /\ UNCHANGED <<devicePixelRatio, hasDocumentFonts, fontLoad, fontsLoaded,
                   fontLoads, fontFaces, calls>>
    /\ UNCHANGED <<storeVars, holidayVars, appVars, apiVars>>

\* initStorage on an empty LocalStorage
EmptyStore ==
    /\ storage = [employees |-> <<>>, vacations |-> <<>>, nextEmpId |-> 0, nextVacId |-> 0]
    /\ storeOp = [op |-> "initStorage", id |-> 0, returned |-> TRUE, before |-> <<>>]

\* the page before any calendar was generated
NoPage ==
    /\ preview = [kind |-> "placeholder", call |-> 0, canvas |-> 0]
    /\ downloadLink = [href |-> 0, download |-> <<>>]
    /\ actionsDisplay = "none"

\* an empty database and no HTTP request
NoApi ==
    /\ foreignKeys = FALSE
    /\ db = [employees |-> {}, vacations |-> {}]
    /\ handlers = <<>>

\* an empty holidays cache and no getHolidaysForDateRange call
NoHolidayCalls ==
    /\ holidaysCache = <<>>
    /\ clock = 0
    /\ holidayCalls = <<>>

\* no generateCalendar call is tracked; the fonts have been prepared
FontsPrepared ==
    /\ devicePixelRatio = 1
    /\ hasDocumentFonts = TRUE
    /\ fontLoad = "resolves"
    /\ fontsLoaded = TRUE
    /\ fontLoads = 1
    /\ fontFaces = 2
    /\ canvases = 0
    /\ calls = <<>>

Init ==
    /\ tz \in TimeZones
    /\ request \in Requests
    /\ colorArg = <<>>
    /\ dayEntries = <<>>
    /\ pc = "call"
    /\ result = NoResult
    /\ FontsPrepared
    /\ EmptyStore
    /\ NoPage
    /\ NoApi
    /\ NoHolidayCalls

Next == generateCalendar

Spec == Init /\ [][Next]_vars

(***************************************************************************)
(* drawVacationDots on its own: the entries of one day cell                *)
(***************************************************************************)
EntryPool == {DayEntry(Vacation(1, 1, Alice, 0, 0, "")),
              DayEntry(Vacation(3, 2, Bob, 0, 0, ""))}

\* drawDayCell calls drawVacationDots only for a cell with entries
DrawDots ==
    /\ pc = "call"
    /\ Len(dayEntries) > 0
    /\ result' = [returned |-> TRUE,
                  marks |-> drawVacationDots(0, 0, dayEntries)]
    /\ pc' = "done"
    /\ UNCHANGED <<tz, request, colorArg, dayEntries>>
    /\ UNCHANGED <<callVars, storeVars, holidayVars, appVars, apiVars>>

InitDots ==
    /\ tz = "UTC"
    /\ request = NoRequest
    /\ colorArg = <<>>
    /\ dayEntries \in SeqsUpTo(EntryPool, MaxEntries)
    /\ pc = "call"
    /\ result = NoResult
    /\ FontsPrepared
    /\ EmptyStore
    /\ NoPage
    /\ NoApi
    /\ NoHolidayCalls

NextDots == DrawDots

SpecDots == InitDots /\ [][NextDots]_vars

(***************************************************************************)
(* parseHexColor on its own: the color strings of the model                *)
(***************************************************************************)
ColorChars == {"#", "0", "a", "z"}
HexDigits == {"0", "1", "2", "3", "4", "5", "6", "7", "8", "9",
              "a", "b", "c", "d", "e", "f", "A", "B", "C", "D", "E", "F"}

ColorStrings == SeqsUpTo(ColorChars, MaxColorLen) \cup {Bob.color, Alice.color}

ParseColor ==
    /\ pc = "call"
    /\ result' = [returned |-> TRUE, threw |-> "", value |-> parseHexColor(colorArg)]
    /\ pc' = "done"
    /\ UNCHANGED <<tz, request, colorArg, dayEntries>>
    /\ UNCHANGED <<callVars, storeVars, holidayVars, appVars, apiVars>>

InitColor ==
    /\ tz = "UTC"
    /\ request = NoRequest
    /\ colorArg \in ColorStrings
    /\ dayEntries = <<>>
    /\ pc = "call"
    /\ result = NoResult
    /\ FontsPrepared
    /\ EmptyStore
    /\ NoPage
    /\ NoApi
    /\ NoHolidayCalls

NextColor == ParseColor

SpecColor == InitColor /\ [][NextColor]_vars

(***************************************************************************)
(* Overlapping generateCalendar calls.  A call runs until its next await:  *)
(* document.fonts.ready, the two FontFace loads, and the await of          *)
(* ensureFontsLoaded in generateCalendar; the rest of the call (one of the *)
(* two generators) has no await and runs in one step.                      *)
(***************************************************************************)
CallIds == 1..MaxCalls
DevicePixelRatios == {0, 1, 2, 3}
FontLoadOutcomes == {"resolves", "rejects", "never"}

JuneWindow == Window(2025, 5, 1, 2025, 5, 10)
SummerWindow == Window(2025, 6, 1, 2025, 7, 30)
QuarterWindow == Window(2025, 0, 1, 2025, 2, 31)

CallRequest(w, employees, vacations, holidays) ==
    [fromDateStr |-> w.from, toDateStr |-> w.to, employees |-> employees,
     vacations |-> vacations, holidays |-> holidays]

CallRequests ==
    { CallRequest(JuneWindow, <<Alice>>,
                  <<Vacation(1, 1, Alice, JuneWindow.from + 4, JuneWindow.from + 6, "")>>,
                  <<>>),
      CallRequest(SummerWindow, <<Alice, Bob>>, <<>>,
                  <<[date |-> SummerWindow.from + 6, name |-> "Holiday A"]>>),
      CallRequest(QuarterWindow, <<Alice>>,
                  <<Vacation(3, 2, Bob, QuarterWindow.to - 1, QuarterWindow.to + 2, ""),
                    Vacation(5, 2, Bob, QuarterWindow.to - 3, QuarterWindow.to, "")>>,
                  <<>>) }

NoCall == [pc |-> "idle", request |-> NoRequest, canvas |-> 0, result |-> NoResult]

\* what the try / catch around the font loads leaves behind once they settle
FontsSettled_noCatch(outcome) ==
    IF outcome = "rejects"
    THEN [threw |-> "FontFaceError", added |-> 0]
    ELSE [threw |-> "", added |-> 2]
FontsSettled(outcome) ==
    [threw |-> "", added |-> IF outcome = "resolves" THEN 2 ELSE 0]

\* the arguments a call renders: those it was called with
CallInputs_shared(c) ==
    calls[CHOOSE d \in CallIds :
             /\ calls[d].pc # "idle"
             /\ \A e \in CallIds : calls[e].pc # "idle" => e <= d].request
CallInputs(c) == calls[c].request

\* generateCalendar is called: ensureFontsLoaded runs up to its first await
generateCalendarCalled(c, req) ==
    /\ calls[c].pc = "idle"
    /\ \A d \in CallIds : d < c => calls[d].pc # "idle"
    /\ IF fontsLoaded
       THEN /\ calls' = [calls EXCEPT ![c].pc = "awaitFonts", ![c].request = req]
            /\ UNCHANGED fontsLoaded
       ELSE IF hasDocumentFonts
       THEN /\ calls' = [calls EXCEPT ![c].pc = "awaitReady", ![c].request = req]
            /\ UNCHANGED fontsLoaded
       ELSE /\ calls' = [calls EXCEPT ![c].pc = "awaitFonts", ![c].request = req]
            /\ fontsLoaded' = TRUE
    /\ UNCHANGED <<devicePixelRatio, hasDocumentFonts, fontLoad, fontLoads,
                   fontFaces, canvases>>
    /\ UNCHANGED <<renderVars, storeVars, holidayVars, apiVars>>

CallStart(c, req) == generateCalendarCalled(c, req) /\ UNCHANGED appVars

\* document.fonts.ready resolves: the two font faces are created and loaded
ReadyResolves(c) ==
    /\ calls[c].pc = "awaitReady"
    /\ fontLoads' = fontLoads + 1
    /\ calls' = [calls EXCEPT ![c].pc = "awaitLoad"]
    /\ UNCHANGED <<devicePixelRatio, hasDocumentFonts, fontLoad, fontsLoaded,
                   fontFaces, canvases>>
    /\ UNCHANGED <<renderVars, storeVars, holidayVars, appVars, apiVars>>

\* Promise.all of the two loads settles
LoadSettles(c) ==
    /\ calls[c].pc = "awaitLoad"
    /\ fontLoad \in {"resolves", "rejects"}
    /\ LET settled == FontsSettled(fontLoad)
       IN  IF settled.threw = ""
           THEN /\ fontFaces' = fontFaces + settled.added
                /\ fontsLoaded' = TRUE
                /\ calls' = [calls EXCEPT ![c].pc = "awaitFonts"]
           ELSE /\ calls' = [calls EXCEPT ![c].pc = "done",
                                 ![c].result = [returned |-> FALSE,
                                                threw |-> settled.threw]]
                /\ UNCHANGED <<fontFaces, fontsLoaded>>
    /\ UNCHANGED <<devicePixelRatio, hasDocumentFonts, fontLoad, fontLoads, canvases>>
    /\ UNCHANGED <<renderVars, storeVars, holidayVars, appVars, apiVars>>

\* await ensureFontsLoaded() resumes: the view is chosen and drawn
generateCalendarResumes(c) ==
    /\ calls[c].pc = "awaitFonts"
    /\ canvases' = canvases + 1
    /\ calls' = [calls EXCEPT ![c].pc = "done",
                              ![c].canvas = canvases + 1,
                              ![c].result = Render(CallInputs(c), tz, devicePixelRatio)]
    /\ UNCHANGED <<devicePixelRatio, hasDocumentFonts, fontLoad, fontsLoaded,
                   fontLoads, fontFaces>>
    /\ UNCHANGED <<renderVars, storeVars, holidayVars, apiVars>>

RenderCall(c) == generateCalendarResumes(c) /\ UNCHANGED appVars

InitCalls ==
    /\ tz \in TimeZones
    /\ request = NoRequest
    /\ colorArg = <<>>
    /\ dayEntries = <<>>
    /\ pc = "call"
    /\ result = NoResult
    /\ devicePixelRatio \in DevicePixelRatios
    /\ hasDocumentFonts \in BOOLEAN
    /\ fontLoad \in FontLoadOutcomes
    /\ fontsLoaded = FALSE
    /\ fontLoads = 0
    /\ fontFaces = 0
    /\ canvases = 0
    /\ calls = [c \in CallIds |-> NoCall]
    /\ EmptyStore
    /\ NoPage
    /\ NoApi
    /\ NoHolidayCalls

NextCalls ==
    \E c \in CallIds :
        \/ \E req \in CallRequests : CallStart(c, req)
        \/ ReadyResolves(c)
        \/ LoadSettles(c)
        \/ RenderCall(c)

SpecCalls == InitCalls /\ [][NextCalls]_vars

\* every await of a call is resumed once what it waits for has happened
FairCalls ==
    \A c \in CallIds :
        /\ WF_vars(ReadyResolves(c))
        /\ WF_vars(LoadSettles(c))
        /\ WF_vars(RenderCall(c))

\* the calls whose termination is checked: a window of two days with one
\* employee, and a window of one day without employees
LiveRequests ==
    { CallRequest(Window(2025, 5, 1, 2025, 5, 2), <<Alice>>, <<>>, <<>>),
      CallRequest(Window(2025, 5, 1, 2025, 5, 1), <<>>, <<>>, <<>>) }

NextCallsLive ==
    \E c \in CallIds :
        \/ \E req \in LiveRequests : CallStart(c, req)
        \/ ReadyResolves(c)
        \/ LoadSettles(c)
        \/ RenderCall(c)

SpecCallsLive == InitCalls /\ [][NextCallsLive]_vars /\ FairCalls

(***************************************************************************)
(* app.js: the submit handler of the calendar form.  Each submit is one    *)
(* generateCalendar call; the handler's continuation after the await runs  *)
(* in the step in which the call returns, and no event is handled while a  *)
(* continuation is queued.  A canvas and its data URL are named by the     *)
(* number of the canvas.                                                   *)
(***************************************************************************)
\* what the form and the store hand to the handler; no holidays are passed
Forms ==
    { CallRequest(JuneWindow, <<Alice>>,
                  <<Vacation(1, 1, Alice, JuneWindow.from + 4, JuneWindow.from + 6, "")>>,
                  <<>>),
      CallRequest(SummerWindow, <<Alice, Bob>>, <<>>, <<>>),
      CallRequest(JuneWindow, <<>>, <<>>, <<>>) }

\* `vacation_calendar_${from}_${to}.png`
DownloadName(form) == <<"vacation_calendar", form.fromDateStr, form.toDateStr, "png">>

\* the submit event up to the await (or to the return for an empty roster)
handleCalendarGenerate(c, form) ==
    /\ actionsDisplay' = "none"
    /\ UNCHANGED downloadLink
    /\ IF form.employees = <<>>
       THEN /\ calls[c].pc = "idle"
            /\ \A d \in CallIds : d < c => calls[d].pc # "idle"
            /\ preview' = [kind |-> "placeholder", call |-> c, canvas |-> 0]
            /\ calls' = [calls EXCEPT ![c].pc = "done", ![c].request = form]
            /\ UNCHANGED <<devicePixelRatio, hasDocumentFonts, fontLoad, fontsLoaded,
                           fontLoads, fontFaces, canvases>>
            /\ UNCHANGED <<renderVars, storeVars, holidayVars, apiVars>>
       ELSE /\ preview' = [kind |-> "generating", call |-> c, canvas |-> 0]
            /\ generateCalendarCalled(c, form)

\* the await returns: the canvas is shown and the download link is set up
handlerResumes(c) ==
    /\ generateCalendarResumes(c)
    /\ IF calls'[c].result.returned
       THEN /\ preview' = [kind |-> "canvas", call |-> c, canvas |-> calls'[c].canvas]
            /\ downloadLink' = [href |-> calls'[c].canvas,
                                download |-> DownloadName(calls[c].request)]
            /\ actionsDisplay' = "block"
       ELSE /\ preview' = [kind |-> "error", call |-> c, canvas |-> 0]
            /\ UNCHANGED <<downloadLink, actionsDisplay>>

InitApp ==
    /\ tz = "UTC"
    /\ request = NoRequest
    /\ colorArg = <<>>
    /\ dayEntries = <<>>
    /\ pc = "call"
    /\ result = NoResult
    /\ devicePixelRatio = 1
    /\ hasDocumentFonts \in BOOLEAN
    /\ fontLoad \in FontLoadOutcomes
    /\ fontsLoaded = FALSE
    /\ fontLoads = 0
    /\ fontFaces = 0
    /\ canvases = 0
    /\ calls = [c \in CallIds |-> NoCall]
    /\ EmptyStore
    /\ NoPage
    /\ NoApi
    /\ NoHolidayCalls

\* a call whose await has been resolved resumes before the next event is
\* handled: a submit or a font event finds no continuation queued
ContinuationQueued == \E d \in CallIds : calls[d].pc = "awaitFonts"

NextApp ==
    \E c \in CallIds :
        \/ ~ContinuationQueued /\ \E form \in Forms : handleCalendarGenerate(c, form)
        \/ ~ContinuationQueued /\ ReadyResolves(c)
        \/ ~ContinuationQueued /\ LoadSettles(c)
        \/ handlerResumes(c)

SpecApp == InitApp /\ [][NextApp]_vars

(***************************************************************************)
(* The LocalStorage store of employees and vacations                       *)
(***************************************************************************)
Employee(id, name, color) == [id |-> id, name |-> name, color |-> color]
StoredVacation(id, employeeId, startDate, endDate, description) ==
    [id |-> id, employee_id |-> employeeId, start_date |-> startDate,
     end_date |-> endDate, description |-> description]

StoreIds == 1..MaxIds
StoreDay == DayNumber(2025, 5, 1)

\* employees.filter(e => e.id !== id)
WithoutEmployee(employees, id) ==
    LET Keep(e) == e.id # id IN SelectSeq(employees, Keep)

\* vacations.filter(v => v.employee_id !== id)
WithoutVacationsOf_none(vacations, id) == vacations
WithoutVacationsOf(vacations, id) ==
    LET Keep(v) == v.employee_id # id IN SelectSeq(vacations, Keep)

\* vacations.filter(v => v.id !== id)
WithoutVacation(vacations, id) ==
    LET Keep(v) == v.id # id IN SelectSeq(vacations, Keep)

\* findIndex: the first index with the id, 0 when there is none
findIndex(seq, id) ==
    IF \E i \in DOMAIN seq : seq[i].id = id
    THEN CHOOSE i \in DOMAIN seq :
            seq[i].id = id /\ \A j \in DOMAIN seq : seq[j].id = id => i <= j
    ELSE 0

\* Math.max(...list.map(x => x.id)), 0 for an empty list
MaxId(seq) ==
    IF seq = <<>> THEN 0
    ELSE CHOOSE m \in {seq[i].id : i \in DOMAIN seq} :
            \A i \in DOMAIN seq : seq[i].id <= m

StoreStep(op, id, returned, after) ==
    /\ storage' = after
    /\ storeOp' = [op |-> op, id |-> id, returned |-> returned, before |-> storage]
    /\ UNCHANGED <<renderVars, callVars, holidayVars, appVars, apiVars>>

createEmployee(name, color) ==
    /\ storage.nextEmpId < MaxIds
    /\ Len(storage.employees) < MaxStored
    /\ LET id == storage.nextEmpId + 1
           employee == Employee(id, name,
                                IF color = <<>> THEN DEFAULT_EMPLOYEE_COLOR ELSE color)
       IN  StoreStep("createEmployee", id, TRUE,
                     [storage EXCEPT !.nextEmpId = id,
                                     !.employees = Append(@, employee)])

updateEmployee(id, name, color) ==
    LET index == findIndex(storage.employees, id)
    IN  IF index = 0
        THEN StoreStep("updateEmployee", id, FALSE, storage)
        ELSE StoreStep("updateEmployee", id, TRUE,
                       [storage EXCEPT !.employees[index].name = name,
                                       !.employees[index].color = color])

deleteEmployee(id) ==
    LET filteredEmployees == WithoutEmployee(storage.employees, id)
        filteredVacations == WithoutVacationsOf(storage.vacations, id)
    IN  IF Len(filteredEmployees) = Len(storage.employees)
        THEN StoreStep("deleteEmployee", id, FALSE, storage)
        ELSE StoreStep("deleteEmployee", id, TRUE,
                       [storage EXCEPT !.employees = filteredEmployees,
                                       !.vacations = filteredVacations])

createVacation(employeeId, startDate, endDate, description) ==
    /\ storage.nextVacId < MaxIds
    /\ Len(storage.vacations) < MaxStored
    /\ LET id == storage.nextVacId + 1
       IN  StoreStep("createVacation", id, TRUE,
                     [storage EXCEPT !.nextVacId = id,
                                     !.vacations = Append(@,
                                         StoredVacation(id, employeeId, startDate,
                                                        endDate, description))])

updateVacation(id, employeeId, startDate, endDate, description) ==
    LET index == findIndex(storage.vacations, id)
    IN  IF index = 0
        THEN StoreStep("updateVacation", id, FALSE, storage)
        ELSE StoreStep("updateVacation", id, TRUE,
                       [storage EXCEPT !.vacations[index] =
                           StoredVacation(id, employeeId, startDate, endDate,
                                          description)])

deleteVacation(id) ==
    LET filtered == WithoutVacation(storage.vacations, id)
    IN  IF Len(filtered) = Len(storage.vacations)
        THEN StoreStep("deleteVacation", id, FALSE, storage)
        ELSE StoreStep("deleteVacation", id, TRUE,
                       [storage EXCEPT !.vacations = filtered])

importData(employees, vacations) ==
    StoreStep("importData", 0, TRUE,
              [employees |-> employees, vacations |-> vacations,
               nextEmpId |-> MaxId(employees), nextVacId |-> MaxId(vacations)])

clearAllData ==
    StoreStep("clearAllData", 0, TRUE,
              [employees |-> <<>>, vacations |-> <<>>, nextEmpId |-> 0, nextVacId |-> 0])

\* backups that are imported: a consistent one, and one with a repeated
\* employee id and a vacation of an employee that is not in it
ImportPayloads ==
    { [employees |-> <<Employee(1, "Ann", Alice.color), Employee(2, "Ben", Carol.color)>>,
       vacations |-> <<StoredVacation(1, 1, StoreDay, StoreDay + 1, ""),
                       StoredVacation(2, 2, StoreDay, StoreDay + 1, "")>>],
      [employees |-> <<Employee(2, "Ann", Alice.color), Employee(2, "Ben", Carol.color)>>,
       vacations |-> <<StoredVacation(1, 2, StoreDay, StoreDay + 1, ""),
                       StoredVacation(2, 3, StoreDay, StoreDay + 1, "")>>] }

(***************************************************************************)
(* backup.js: importing a backup file.  A file either fails JSON.parse or  *)
(* parses to an object with an employees and a vacations array; a missing  *)
(* version is 0, a missing name is "", a missing date is 0 (all falsy).    *)
(***************************************************************************)
BACKUP_VERSION == 1

BackupData(version, employees, vacations) ==
    [version |-> version, employees |-> employees, vacations |-> vacations]

\* the structure tests on each employee and vacation, then the references
validateImportData(data) ==
    IF \E i \in DOMAIN data.employees : data.employees[i].name = ""
    THEN [valid |-> FALSE, error |-> "Invalid employee data: missing id or name"]
    ELSE IF \E i \in DOMAIN data.vacations :
                data.vacations[i].start_date = 0 \/ data.vacations[i].end_date = 0
    THEN [valid |-> FALSE, error |-> "Invalid vacation data: missing required fields"]
    ELSE IF \E i \in DOMAIN data.vacations :
                data.vacations[i].employee_id
                    \notin {data.employees[e].id : e \in DOMAIN data.employees}
    THEN [valid |-> FALSE, error |-> "Vacation references non-existent employee ID"]
    ELSE [valid |-> TRUE, error |-> ""]

StorageAfterImport(employees, vacations) ==
    [employees |-> employees, vacations |-> vacations,
     nextEmpId |-> MaxId(employees), nextVacId |-> MaxId(vacations)]

\* reader.onload: what the promise resolves with and what the store holds
ImportOutcome_versionLast(file, store) ==
    IF ~file.parses THEN [success |-> FALSE, storage |-> store]
    ELSE IF ~validateImportData(file.data).valid
    THEN [success |-> FALSE, storage |-> store]
    ELSE [success |-> ~(file.data.version # 0 /\ file.data.version > BACKUP_VERSION),
          storage |-> StorageAfterImport(file.data.employees, file.data.vacations)]
ImportOutcome(file, store) ==
    IF ~file.parses THEN [success |-> FALSE, storage |-> store]
    ELSE IF ~validateImportData(file.data).valid
    THEN [success |-> FALSE, storage |-> store]
    ELSE IF file.data.version # 0 /\ file.data.version > BACKUP_VERSION
    THEN [success |-> FALSE, storage |-> store]
    ELSE [success |-> TRUE,
          storage |-> StorageAfterImport(file.data.employees, file.data.vacations)]

Backup_importData(file) ==
    LET outcome == ImportOutcome(file, storage)
    IN  /\ storage' = outcome.storage
        /\ storeOp' = [op |-> "Backup.importData", id |-> 0,
                       returned |-> outcome.success, before |-> storage,
                       file |-> file]
        /\ UNCHANGED <<renderVars, callVars, holidayVars, appVars, apiVars>>

NoData == BackupData(0, <<>>, <<>>)

\* the backup files that are imported
ImportFiles ==
    { [parses |-> FALSE, data |-> NoData],
      [parses |-> TRUE,
       data |-> BackupData(1, <<Employee(1, "Ann", Alice.color),
                                Employee(3, "Ben", Carol.color)>>,
                           <<StoredVacation(2, 3, StoreDay, StoreDay + 1, "")>>)],
      [parses |-> TRUE,
       data |-> BackupData(2, <<Employee(1, "Ann", Alice.color)>>, <<>>)],
      [parses |-> TRUE,
       data |-> BackupData(0, <<Employee(2, "Ann", Alice.color),
                                Employee(2, "Ben", Carol.color)>>,
                           <<StoredVacation(1, 2, StoreDay, StoreDay + 1, ""),
                             StoredVacation(1, 2, StoreDay + 2, StoreDay + 3, "")>>)],
      [parses |-> TRUE,
       data |-> BackupData(1, <<Employee(1, "Ann", Alice.color)>>,
                           <<StoredVacation(1, 3, StoreDay, StoreDay + 1, "")>>)],
      [parses |-> TRUE,
       data |-> BackupData(1, <<Employee(1, "", Alice.color)>>, <<>>)],
      [parses |-> TRUE,
       data |-> BackupData(1, <<Employee(1, "Ann", Alice.color)>>,
                           <<StoredVacation(1, 1, 0, StoreDay, "")>>)] }

InitStore ==
    /\ tz = "UTC"
    /\ request = NoRequest
    /\ colorArg = <<>>
    /\ dayEntries = <<>>
    /\ pc = "call"
    /\ result = NoResult
    /\ FontsPrepared
    /\ EmptyStore
    /\ NoPage
    /\ NoApi
    /\ NoHolidayCalls

NextStore ==
    \/ \E color \in {<<>>, Alice.color} : createEmployee("Ann", color)
    \/ \E id \in StoreIds : updateEmployee(id, "Ben", Carol.color)
    \/ \E id \in StoreIds : deleteEmployee(id)
    \/ \E employeeId \in StoreIds :
          createVacation(employeeId, StoreDay, StoreDay + 1, "")
    \/ \E id, employeeId \in StoreIds :
          updateVacation(id, employeeId, StoreDay + 2, StoreDay + 3, "moved")
    \/ \E id \in StoreIds : deleteVacation(id)
    \/ \E data \in ImportPayloads : importData(data.employees, data.vacations)
    \/ \E file \in ImportFiles : Backup_importData(file)
    \/ clearAllData

SpecStore == InitStore /\ [][NextStore]_vars

(***************************************************************************)
(* The holidays cache (holidays.js).  Date.now() is counted in days, so    *)
(* CACHE_DURATION_MS is 7.  A country code has no '_' and a date is        *)
(* YYYY-MM-DD, so the cache key `${countryCode}_${fromDate}_${toDate}` is  *)
(* the triple of its parts.                                                *)
(***************************************************************************)
CACHE_DURATION_MS == 7
\* a value that may be null: no element, or the value as the only element
Null == <<>>
Some(value) == <<value>>

HolidayCallIds == 1..MaxHolidayCalls
\* the arguments of the calls: no country, and keys that differ in the
\* country only and in the range only
HolidayRequests ==
    { [countryCode |-> "", range |-> JuneWindow],
      [countryCode |-> "DE", range |-> JuneWindow],
      [countryCode |-> "DE", range |-> SummerWindow],
      [countryCode |-> "PL", range |-> JuneWindow] }
HolidayData == {<<>>, <<[date |-> JuneWindow.from + 6, name |-> "Holiday A"]>>}

getCacheKey(countryCode, fromDate, toDate) == <<countryCode, fromDate, toDate>>

getCachedHolidays_noExpiry(cache, now, countryCode, fromDate, toDate) ==
    LET key == getCacheKey(countryCode, fromDate, toDate)
    IN  IF key \notin DOMAIN cache THEN Null ELSE Some(cache[key].data)
getCachedHolidays(cache, now, countryCode, fromDate, toDate) ==
    LET key == getCacheKey(countryCode, fromDate, toDate)
    IN  IF key \notin DOMAIN cache THEN Null
        ELSE IF now - cache[key].timestamp > CACHE_DURATION_MS THEN Null
        ELSE Some(cache[key].data)

setCachedHolidays(cache, now, countryCode, fromDate, toDate, holidays) ==
    LET key == getCacheKey(countryCode, fromDate, toDate)
        entry == [timestamp |-> now, data |-> holidays]
    IN  [k \in DOMAIN cache \cup {key} |-> IF k = key THEN entry ELSE cache[k]]

NoHolidayCall ==
    [pc |-> "idle", countryCode |-> "", fromDate |-> 0, toDate |-> 0,
     startedAt |-> 0, found |-> Null, requests |-> 0, value |-> Null]

\* getHolidaysForDateRange is called: it runs up to the await of the fetch
HolidaysCallStart(c, countryCode, range) ==
    /\ holidayCalls[c].pc = "idle"
    /\ \A d \in HolidayCallIds : d < c => holidayCalls[d].pc # "idle"
    /\ LET key == getCacheKey(countryCode, range.from, range.to)
           cached == getCachedHolidays(holidaysCache, clock, countryCode,
                                       range.from, range.to)
           call == [NoHolidayCall EXCEPT !.countryCode = countryCode,
                                         !.fromDate = range.from,
                                         !.toDate = range.to,
                                         !.startedAt = clock,
                                         !.found = IF key \in DOMAIN holidaysCache
                                                   THEN Some(holidaysCache[key]) ELSE Null]
       IN  holidayCalls' =
             [holidayCalls EXCEPT ![c] =
                IF countryCode = ""
                THEN [call EXCEPT !.pc = "done", !.value = Some(<<>>)]
                ELSE IF cached # Null
                THEN [call EXCEPT !.pc = "done", !.value = cached]
                ELSE [call EXCEPT !.pc = "fetching", !.requests = 1]]
    /\ UNCHANGED <<holidaysCache, clock>>
    /\ UNCHANGED <<renderVars, callVars, storeVars, appVars, apiVars>>

\* the fetch succeeds: the holidays are cached and returned
FetchResolves(c, holidays) ==
    /\ holidayCalls[c].pc = "fetching"
    /\ holidaysCache' = setCachedHolidays(holidaysCache, clock,
                                          holidayCalls[c].countryCode,
                                          holidayCalls[c].fromDate,
                                          holidayCalls[c].toDate, holidays)
    /\ holidayCalls' = [holidayCalls EXCEPT ![c].pc = "done", ![c].value = Some(holidays)]
    /\ UNCHANGED clock
    /\ UNCHANGED <<renderVars, callVars, storeVars, appVars, apiVars>>

\* fetch rejects, or the response is not ok: the call throws
FetchFails(c) ==
    /\ holidayCalls[c].pc = "fetching"
    /\ holidayCalls' = [holidayCalls EXCEPT ![c].pc = "failed"]
    /\ UNCHANGED <<holidaysCache, clock>>
    /\ UNCHANGED <<renderVars, callVars, storeVars, appVars, apiVars>>

\* a day passes
Tick ==
    /\ clock < MaxClock
    /\ clock' = clock + 1
    /\ UNCHANGED <<holidaysCache, holidayCalls>>
    /\ UNCHANGED <<renderVars, callVars, storeVars, appVars, apiVars>>

InitHolidays ==
    /\ tz = "UTC"
    /\ request = NoRequest
    /\ colorArg = <<>>
    /\ dayEntries = <<>>
    /\ pc = "call"
    /\ result = NoResult
    /\ FontsPrepared
    /\ EmptyStore
    /\ NoPage
    /\ NoApi
    /\ holidaysCache = <<>>
    /\ clock = 0
    /\ holidayCalls = [c \in HolidayCallIds |-> NoHolidayCall]

NextHolidays ==
    \/ \E c \in HolidayCallIds :
          \/ \E args \in HolidayRequests :
                HolidaysCallStart(c, args.countryCode, args.range)
          \/ \E holidays \in HolidayData : FetchResolves(c, holidays)
          \/ FetchFails(c)
    \/ Tick

SpecHolidays == InitHolidays /\ [][NextHolidays]_vars

(***************************************************************************)
(* Properties                                                              *)
(***************************************************************************)
Done == pc = "done"
FromDate == ParseLocal(request.fromDateStr, tz)
ToDate == ParseLocal(request.toDateStr, tz)
RequestDays == calculateDays(FromDate, ToDate)
ValidWindow ==
    /\ IsDateString(request.fromDateStr)
    /\ IsDateString(request.toDateStr)
    /\ request.fromDateStr <= request.toDateStr

C2_InvalidRangeFails ==
    (Done /\ (IsNaN(RequestDays) \/ RequestDays < 1)) =>
        /\ result.threw = "InvalidRangeError"
        /\ ~result.canvas
        /\ ~result.dataUrl

\* the bars of the Timeline rows, each with the row it is drawn in
TimelineBars ==
    UNION {{result.rows[i].bars[j] : j \in DOMAIN result.rows[i].bars} :
              i \in DOMAIN result.rows}

\* a vacation's calendar days meet the window [from, to]
Overlaps(startDate, endDate) ==
    startDate <= request.toDateStr /\ endDate >= request.fromDateStr

\* C3: in the Timeline view the bar of every vacation that overlaps [from, to]
\* covers exactly the day columns max(start, from) - from to min(end, to) - from:
\* x = LEFT_MARGIN + startOffset * DAY_WIDTH + 2 and
\* width = (endOffset - startOffset + 1) * DAY_WIDTH - 4.
C3_BarIsClippedSpan ==
    (Done /\ ValidWindow /\ result.view = "timeline") =>
        \A bar \in TimelineBars :
            Overlaps(bar.start, bar.end) =>
                LET startOffset == Max(bar.start, request.fromDateStr) - request.fromDateStr
                    endOffset == Min(bar.end, request.toDateStr) - request.fromDateStr
                IN  /\ bar.x = LEFT_MARGIN + startOffset * DAY_WIDTH + 2
                    /\ bar.w = (endOffset - startOffset + 1) * DAY_WIDTH - 4

\* C4: a vacation that lies entirely outside [from, to] gets nothing drawn in
\* the main body: no bar in the Timeline view, no dot in the Monthly-Grid view.
C4_NothingDrawnOutside ==
    (Done /\ ValidWindow) =>
        /\ result.view = "timeline" =>
              \A bar \in TimelineBars : Overlaps(bar.start, bar.end)
        /\ result.view = "monthly" =>
              \A t \in DOMAIN result.tiles :
                \A c \in DOMAIN result.tiles[t].grid.cells :
                  LET cell == result.tiles[t].grid.cells[c]
                      n == DayNumber(result.tiles[t].grid.year,
                                     result.tiles[t].grid.month, cell.day)
                  IN  Len(cell.marks.dots) <=
                        Cardinality({i \in DOMAIN request.vacations :
                            /\ Overlaps(request.vacations[i].start_date,
                                        request.vacations[i].end_date)
                            /\ request.vacations[i].start_date <= n
                            /\ n <= request.vacations[i].end_date})

\* the logical canvas height of the view of the result for given counts
HeightFor(vacationCount, holidayCount) ==
    IF result.view = "timeline"
    THEN TimelineHeight(Len(request.employees), vacationCount, holidayCount)
    ELSE calculateMonthlyGridDimensions(result.months, vacationCount, holidayCount).height

MinimumHeight == IF result.view = "timeline" THEN 200 ELSE 400

\* C5: with the window and the employees fixed, the canvas height is never
\* below the minimum (200 Timeline, 400 Monthly-Grid), does not decrease when
\* a vacation or a holiday is added, and grows with the added entry whenever
\* the height is above the minimum.
C5_HeightMonotone ==
    Done =>
        /\ result.height >= MinimumHeight
        /\ \A added \in {<<1, 0>>, <<0, 1>>} :
              LET more == HeightFor(Len(request.vacations) + added[1],
                                    Len(request.holidays) + added[2])
              IN  /\ more >= result.height
                  /\ result.height > MinimumHeight => more > result.height

C5_Witness ==
    /\ Done
    /\ result.view = "monthly"
    /\ Len(request.vacations) = 2
    /\ Len(request.holidays) = 2
    /\ result.height > 400

\* C6: for a day cell with n >= 1 entries drawVacationDots draws exactly
\* min(n, 6) dots, at most 3 in a sub-row and in at most 2 sub-rows, and the
\* '+' marker if and only if n > 6.
C6_DotPacking ==
    Done =>
        LET n == Len(dayEntries)
            dots == result.marks.dots
            SubRows == {dots[i].y : i \in DOMAIN dots}
        IN  /\ Len(dots) = Min(n, 6)
            /\ Cardinality(SubRows) <= 2
            /\ \A y \in SubRows : Cardinality({i \in DOMAIN dots : dots[i].y = y}) <= 3
            /\ \A i, j \in DOMAIN dots :
                  (i # j) => <<dots[i].x, dots[i].y>> # <<dots[j].x, dots[j].y>>
            /\ \A i \in DOMAIN dots : dots[i].color = dayEntries[i].color
            /\ result.marks.plus <=> n > 6

C6_Witness ==
    Done /\ Len(dayEntries) = 8 /\ Len(result.marks.dots) = 6 /\ result.marks.plus

\* the day cells of the Monthly-Grid result, each with its calendar day
MonthlyCells ==
    UNION {{[n |-> DayNumber(result.tiles[t].grid.year, result.tiles[t].grid.month,
                             result.tiles[t].grid.cells[c].day),
             cell |-> result.tiles[t].grid.cells[c]] :
                c \in DOMAIN result.tiles[t].grid.cells} :
              t \in DOMAIN result.tiles}

InWindow(n) == request.fromDateStr <= n /\ n <= request.toDateStr

\* C7: in the Monthly-Grid view every day of a displayed month outside
\* [from, to] is drawn dimmed with a muted day number and gets no vacation
\* dots, no holiday tint and no holiday border, whatever data exists for it.
C7_OutOfWindowDimmed ==
    (Done /\ result.view = "monthly") =>
        \A dc \in MonthlyCells :
            ~InWindow(dc.n) =>
                /\ dc.cell.fill = "#F5F5F5"
                /\ dc.cell.text = "#BBB"
                /\ dc.cell.stroke = GRID_COLOR
                /\ dc.cell.marks = NoDots

C7_Witness ==
    /\ Done
    /\ result.view = "monthly"
    /\ \E dc \in MonthlyCells :
          /\ ~InWindow(dc.n)
          /\ \E i \in DOMAIN request.holidays : request.holidays[i].date = dc.n
          /\ \E i \in DOMAIN request.vacations :
                /\ request.vacations[i].start_date <= dc.n
                /\ dc.n <= request.vacations[i].end_date

\* C8: getMonthsInRange returns exactly the calendar months that meet
\* [from, to], each once and in chronological order, and the month with
\* index i is placed at tile row i \div 3 and tile column i % 3; January to
\* March 2025 gives the three tiles Jan, Feb, Mar 2025 in one row.
C8_MonthsAndTiles ==
    (Done /\ result.view = "monthly") =>
        LET months == result.months
            Ordinal(m) == m.year * 12 + m.month
        IN  /\ {Ordinal(months[i]) : i \in DOMAIN months} =
                  {getFullYear(n) * 12 + getMonth(n) :
                      n \in request.fromDateStr .. request.toDateStr}
            /\ \A i, j \in DOMAIN months :
                  i < j => Ordinal(months[i]) < Ordinal(months[j])
            /\ DOMAIN result.tiles = DOMAIN months
            /\ \A i \in DOMAIN months :
                  /\ result.tiles[i].grid.year = months[i].year
                  /\ result.tiles[i].grid.month = months[i].month
                  /\ result.tiles[i].row = (i - 1) \div 3
                  /\ result.tiles[i].col = (i - 1) % 3
                  /\ result.tiles[i].grid.x = 20 + result.tiles[i].col * (7 * 28 + 30)
                  /\ result.tiles[i].grid.y = 60 + result.tiles[i].row * (30 + 25 + 6 * 28 + 40)
            /\ (request.fromDateStr = DayNumber(2025, 0, 1)
                  /\ request.toDateStr = DayNumber(2025, 2, 31)) =>
                  /\ [i \in DOMAIN months |-> <<months[i].name, months[i].year>>] =
                        << <<"Jan", 2025>>, <<"Feb", 2025>>, <<"Mar", 2025>> >>
                  /\ \A i \in DOMAIN result.tiles : result.tiles[i].row = 0

C8_Witness ==
    /\ Done
    /\ result.view = "monthly"
    /\ request.fromDateStr = DayNumber(2025, 0, 1)
    /\ request.toDateStr = DayNumber(2025, 2, 31)
    /\ Len(result.tiles) = 3

\* a sequence without its i-th element
RemoveAt(seq, i) == SubSeq(seq, 1, i - 1) \o SubSeq(seq, i + 1, Len(seq))

\* the index at which an employee id is first seen among the vacations
FirstIndex(vacations, empId) ==
    CHOOSE i \in DOMAIN vacations :
        /\ vacations[i].employee_id = empId
        /\ \A j \in DOMAIN vacations : vacations[j].employee_id = empId => i <= j

\* C9: the grouped (Monthly) legend has one row per distinct employee_id of
\* the vacations, in first-seen order; an employee without vacations has no
\* row; removing an employee's last vacation removes exactly one row, and
\* removing one of several vacations of an employee leaves the row count.
C9_GroupedLegendRows ==
    (Done /\ result.view = "monthly") =>
        LET vacations == request.vacations
            rows == result.legend
            Ids == {vacations[i].employee_id : i \in DOMAIN vacations}
        IN  /\ Len(rows) = Cardinality(Ids)
            /\ {rows[r].empId : r \in DOMAIN rows} = Ids
            /\ \A r, q \in DOMAIN rows :
                  r < q => FirstIndex(vacations, rows[r].empId)
                             < FirstIndex(vacations, rows[q].empId)
            /\ \A e \in DOMAIN request.employees :
                  request.employees[e].id \notin Ids =>
                      \A r \in DOMAIN rows : rows[r].empId # request.employees[e].id
            /\ \A r \in DOMAIN rows :
                  Len(rows[r].ranges) =
                      Cardinality({i \in DOMAIN vacations :
                                      vacations[i].employee_id = rows[r].empId})
            /\ \A i \in DOMAIN vacations :
                  LET others == {j \in DOMAIN vacations :
                                    j # i /\ vacations[j].employee_id = vacations[i].employee_id}
                      after == drawMonthlyLegend(RemoveAt(vacations, i), 0, tz)
                  IN  Len(after) = IF others = {} THEN Len(rows) - 1 ELSE Len(rows)

C9_Witness ==
    /\ Done
    /\ result.view = "monthly"
    /\ Len(request.vacations) = 2
    /\ request.vacations[1].employee_id = request.vacations[2].employee_id
    /\ request.vacations[1] # request.vacations[2]
    /\ Len(result.legend) = 1
    /\ Len(request.employees) = 2

\* a color string is six hexadecimal digits, with or without a leading '#'
IsHexColor(hex) ==
    \/ Len(hex) = 6 /\ \A i \in 1..6 : hex[i] \in HexDigits
    \/ Len(hex) = 7 /\ hex[1] = "#" /\ \A i \in 2..7 : hex[i] \in HexDigits

\* C10: parseHexColor returns the default color #3498db for every missing,
\* empty, wrong-length or non-hexadecimal color string and a '#'-prefixed
\* 6-hex-digit color otherwise, and never raises an error.
C10_MalformedColorIsDefault ==
    Done =>
        /\ result.threw = ""
        /\ ~IsHexColor(colorArg) => result.value = DEFAULT_EMPLOYEE_COLOR
        /\ IsHexColor(colorArg) =>
              /\ Len(result.value) = 7
              /\ result.value[1] = "#"
              /\ \A i \in 2..7 : result.value[i] \in HexDigits

\* the request holds a vacation without a joined employee whose employee_id
\* is not in the employee list, and its days meet the window
Orphans ==
    {i \in DOMAIN request.vacations :
        /\ request.vacations[i].employee = NullEmployee
        /\ \A e \in DOMAIN request.employees :
              request.employees[e].id # request.vacations[i].employee_id
        /\ Overlaps(request.vacations[i].start_date, request.vacations[i].end_date)}

\* C11: for a vacation whose employee_id matches no supplied employee and
\* that carries no joined employee, generateCalendar does not throw, labels it
\* 'Unknown' in the legend and still draws it in the main body with the
\* default color: a bar in the Timeline view, a dot in the Monthly-Grid view.
C11_UnknownEmployeeDrawn ==
    (Done /\ ValidWindow) =>
        \A i \in Orphans :
            LET v == request.vacations[i]
            IN  /\ result.threw = ""
                /\ \E r \in DOMAIN result.legend :
                      /\ result.legend[r].name = "Unknown"
                      /\ result.legend[r].color = DEFAULT_EMPLOYEE_COLOR
                /\ result.view = "timeline" =>
                      \E bar \in TimelineBars :
                          /\ bar.start = v.start_date
                          /\ bar.end = v.end_date
                          /\ bar.color = DEFAULT_EMPLOYEE_COLOR
                /\ result.view = "monthly" =>
                      \E dc \in MonthlyCells :
                          \E d \in DOMAIN dc.cell.marks.dots :
                              /\ v.start_date <= dc.n /\ dc.n <= v.end_date
                              /\ dc.cell.marks.dots[d].color = DEFAULT_EMPLOYEE_COLOR

\* C15: generateCalendar renders the Timeline view for every window of up to
\* 31 days and the Monthly-Grid view for every window of 32 or more days.
C15_ReadmeThreshold ==
    (Done /\ ValidWindow) =>
        LET n == request.toDateStr - request.fromDateStr + 1
        IN  /\ n <= 31 => result.view = "timeline"
            /\ n >= 32 => result.view = "monthly"

\* the positions in the operations of the Timeline of the operations of a layer
OpsOf(layer) == {k \in DOMAIN result.ops : result.ops[k].layer = layer}
LayerOrder == <<"background", "title", "weekend", "holiday", "header", "name", "grid">>

\* C20: generateTimelineCalendar issues its layers in the order background,
\* title, weekend shading, holiday shading, date headers, employee rows with
\* their bars, grid lines: the holiday shading of a day comes after the
\* weekend shading of that day, and every grid line comes after every
\* shading and every bar.
C20_LayerOrder ==
    (Done /\ result.view = "timeline") =>
        /\ \A a, b \in DOMAIN LayerOrder :
              a < b => \A k \in OpsOf(LayerOrder[a]) :
                          \A m \in OpsOf(LayerOrder[b]) : k < m
        /\ \A k \in OpsOf("bar") :
              /\ \A m \in OpsOf("header") : m < k
              /\ \A m \in OpsOf("grid") : k < m
        /\ \A k \in OpsOf("weekend") : \A m \in OpsOf("holiday") :
              result.ops[k].col = result.ops[m].col => k < m
        /\ Cardinality(OpsOf("background")) = 1
        /\ Cardinality(OpsOf("title")) = 1
        /\ Cardinality(OpsOf("weekend")) = Len(result.weekend)
        /\ Cardinality(OpsOf("holiday")) = Len(result.holiday)
        /\ Cardinality(OpsOf("bar")) =
              Cardinality({ij \in (DOMAIN result.rows) \X (1..Len(request.vacations)) :
                              ij[2] \in DOMAIN result.rows[ij[1]].bars})
        /\ OpsOf("grid") # {}

C20_Witness ==
    /\ Done
    /\ result.view = "timeline"
    /\ \E k \in OpsOf("weekend") : \E m \in OpsOf("holiday") :
          result.ops[k].col = result.ops[m].col
    /\ OpsOf("bar") # {}

\* the calls that have returned
Returned == {c \in CallIds : calls[c].pc = "done"}

\* C12: for every render the pixel width and height of the bitmap are exactly
\* 2 (PNG_SCALE) times the logical width and height, whatever
\* window.devicePixelRatio is.
C12_PixelSizeIsTwice ==
    \A c \in Returned :
        /\ calls[c].result.pixelWidth = 2 * calls[c].result.width
        /\ calls[c].result.pixelHeight = 2 * calls[c].result.height

\* what the call returns when it is the only call and the fonts load
Alone(c) == Render(calls[c].request, tz, devicePixelRatio)

\* C13: if loading the Roboto fonts fails, generateCalendar still returns a
\* canvas and a data URL whose logical width and height equal those of the
\* same request when the fonts load, nothing is thrown to the caller, and
\* fontsLoaded becomes true.
C13_FontFailureIsHarmless ==
    (fontLoad = "rejects") =>
        /\ \A c \in Returned :
              /\ calls[c].result.returned
              /\ calls[c].result.threw = ""
              /\ calls[c].result.canvas
              /\ calls[c].result.dataUrl
              /\ calls[c].result.width = Alone(c).width
              /\ calls[c].result.height = Alone(c).height
        /\ \A c \in CallIds : calls[c].pc \in {"awaitFonts", "done"} => fontsLoaded

C13_Witness ==
    /\ fontLoad = "rejects"
    /\ fontLoads > 0
    /\ fontFaces = 0
    /\ fontsLoaded
    /\ \E c \in Returned : calls[c].result.width > 800

C18_FontsLoadedOnce == fontLoads <= 1 /\ fontFaces <= 2

\* C19: every generateCalendar call eventually returns a result, also when
\* the font load neither resolves nor rejects.
C19_EveryCallReturns ==
    \A c \in CallIds : (calls[c].pc # "idle") ~> (calls[c].pc = "done")

\* C16: when deleteEmployee(id) returns true the store holds no employee
\* with that id and no vacation with employee_id = id, and all other
\* employees and vacations are unchanged; when it returns false the stored
\* employees and vacations are unchanged.
C16_CascadeDelete ==
    (storeOp.op = "deleteEmployee") =>
        LET id == storeOp.id
            before == storeOp.before
            OtherEmployees(list) == {i \in DOMAIN list : list[i].id # id}
            OtherVacations(list) == {i \in DOMAIN list : list[i].employee_id # id}
        IN  IF storeOp.returned
            THEN /\ \A i \in DOMAIN storage.employees : storage.employees[i].id # id
                 /\ \A i \in DOMAIN storage.vacations :
                       storage.vacations[i].employee_id # id
                 /\ Len(storage.employees) = Cardinality(OtherEmployees(before.employees))
                 /\ Len(storage.vacations) = Cardinality(OtherVacations(before.vacations))
                 /\ \A i \in OtherEmployees(before.employees) :
                       \E j \in DOMAIN storage.employees :
                           storage.employees[j] = before.employees[i]
                 /\ \A i \in OtherVacations(before.vacations) :
                       \E j \in DOMAIN storage.vacations :
                           storage.vacations[j] = before.vacations[i]
                 /\ \E i \in DOMAIN before.employees : before.employees[i].id = id
            ELSE /\ storage = before
                 /\ \A i \in DOMAIN before.employees : before.employees[i].id # id

C16_Witness ==
    /\ storeOp.op = "deleteEmployee"
    /\ storeOp.returned
    /\ \E i \in DOMAIN storeOp.before.vacations :
          storeOp.before.vacations[i].employee_id = storeOp.id
    /\ storage.employees # <<>>
    /\ storage.vacations # <<>>

\* the cache entry a call found for its key was at most 7 days old
FoundFresh(call) ==
    /\ call.found # Null
    /\ call.startedAt - call.found[1].timestamp <= 7

\* what holds of every getHolidaysForDateRange call that has passed the cache
HolidaysCallServed ==
    \A c \in HolidayCallIds :
        LET call == holidayCalls[c]
        IN  (call.pc # "idle" /\ call.countryCode # "") =>
                /\ call.requests = 0 <=> FoundFresh(call)
                /\ call.requests \in {0, 1}
                /\ (call.pc = "done" /\ FoundFresh(call)) => call.value = Some(call.found[1].data)
                /\ call.pc \in {"fetching", "failed"} => call.requests = 1

\* what the end of a fetch does to the cache
HolidaysFetchStored ==
    \A c \in HolidayCallIds :
        LET call == holidayCalls[c]
            key == getCacheKey(call.countryCode, call.fromDate, call.toDate)
        IN  /\ (call.pc = "fetching" /\ holidayCalls'[c].pc = "done") =>
                  /\ DOMAIN holidaysCache' = DOMAIN holidaysCache \cup {key}
                  /\ holidayCalls'[c].value # Null
                  /\ holidaysCache'[key] = [timestamp |-> clock,
                                            data |-> holidayCalls'[c].value[1]]
                  /\ \A k \in DOMAIN holidaysCache :
                        k # key => holidaysCache'[k] = holidaysCache[k]
            /\ (call.pc = "fetching" /\ holidayCalls'[c].pc = "failed") =>
                  holidaysCache' = holidaysCache

\* C17: getHolidaysForDateRange returns the cached list without a network
\* request if and only if a cache entry for exactly its (countryCode, from,
\* to) key exists and is at most 7 days old; otherwise it fetches, stores
\* the result under that key with the current timestamp and returns it; an
\* entry older than 7 days is never returned, and a failed fetch leaves the
\* cache unchanged.
C17_SevenDayCache == []HolidaysCallServed /\ [][HolidaysFetchStored]_vars

C17_Witness ==
    \E c \in HolidayCallIds :
        /\ holidayCalls[c].pc = "done"
        /\ holidayCalls[c].requests = 0
        /\ holidayCalls[c].found # Null
        /\ holidayCalls[c].startedAt - holidayCalls[c].found[1].timestamp = 7
        /\ holidayCalls[c].value # Some(<<>>)
        /\ DOMAIN holidaysCache = {getCacheKey(holidayCalls[c].countryCode,
                                               holidayCalls[c].fromDate,
                                               holidayCalls[c].toDate)}

\* C21: in the Monthly-Grid view the vacation-legend height that the planner
\* adds to the canvas is that of the legend rows drawn, one per distinct
\* employee with vacations, not one per vacation.
C21_LegendHeightByEmployee ==
    (Done /\ result.view = "monthly") =>
        result.height =
            calculateMonthlyGridDimensions(result.months, Len(result.legend),
                                           Len(request.holidays)).height

\* C22: in the Timeline legend the date range of a vacation's row is the
\* range clipped to the window, max(start, from) to min(end, to).
C22_FlatLegendClipped ==
    (Done /\ ValidWindow /\ result.view = "timeline") =>
        \A i \in DOMAIN request.vacations :
            LET v == request.vacations[i]
                ShortDate(n) == <<MONTH_NAMES[getMonth(n) + 1], getDate(n)>>
            IN  Overlaps(v.start_date, v.end_date) =>
                    /\ result.legend[i].from =
                          ShortDate(Max(v.start_date, request.fromDateStr))
                    /\ result.legend[i].to =
                          ShortDate(Min(v.end_date, request.toDateStr))

\* the month tiles of the Monthly-Grid result
Tiles == {result.tiles[t].grid : t \in DOMAIN result.tiles}

\* C24: in every month tile each day d is drawn in exactly one cell, at
\* column (firstDayOfWeek + d - 1) mod 7 and row (firstDayOfWeek + d - 1)
\* div 7; the row never exceeds 5, so the cell lies inside the 6-row tile;
\* leading empty cells, day cells and trailing empty cells fill whole rows
\* of 7 and no grid position is drawn twice.
C24_MonthGridCells ==
    (Done /\ result.view = "monthly") =>
        \A grid \in Tiles :
            LET cellStartY == grid.y + MONTH_TITLE_HEIGHT + WEEKDAY_HEADER_HEIGHT
                Slot(cell) == <<(cell.x - grid.x) \div DAY_CELL_SIZE,
                                (cell.y - cellStartY) \div DAY_CELL_SIZE>>
                daySlots == {Slot(grid.cells[d]) : d \in DOMAIN grid.cells}
                emptySlots == {Slot(grid.emptyCells[k]) : k \in DOMAIN grid.emptyCells}
                rows == {slot[2] : slot \in daySlots}
            IN  /\ \A d \in DOMAIN grid.cells :
                      /\ grid.cells[d].day = d
                      /\ Slot(grid.cells[d]) = <<(grid.leading + d - 1) % 7,
                                                 (grid.leading + d - 1) \div 7>>
                      /\ (grid.cells[d].x - grid.x) % DAY_CELL_SIZE = 0
                      /\ (grid.cells[d].y - cellStartY) % DAY_CELL_SIZE = 0
                      /\ Slot(grid.cells[d])[2] <= 5
                      /\ grid.cells[d].y + DAY_CELL_SIZE <=
                            grid.y + MONTH_TITLE_HEIGHT + WEEKDAY_HEADER_HEIGHT
                              + 6 * DAY_CELL_SIZE
                /\ Cardinality(daySlots) = Len(grid.cells)
                /\ Cardinality(emptySlots) = Len(grid.emptyCells)
                /\ daySlots \cap emptySlots = {}
                /\ daySlots \cup emptySlots = (0..6) \X rows

C24_Witness ==
    /\ Done
    /\ result.view = "monthly"
    /\ \E grid \in Tiles :
          /\ grid.leading = 6
          /\ grid.leading + Len(grid.cells) > 35
          /\ Len(grid.emptyCells) = 12
    /\ \E grid \in Tiles : (grid.leading + Len(grid.cells)) % 7 = 0

\* C25: in the Timeline view the number of day columns is the number of
\* calendar days in [from, to], and the first and last column of a
\* vacation bar are the columns whose headers show its clipped start and
\* end dates, also when the window contains a daylight-saving transition.
C25_ColumnsAreCalendarDays ==
    (Done /\ ValidWindow /\ result.view = "timeline") =>
        /\ Len(result.headers) = request.toDateStr - request.fromDateStr + 1
        /\ \A k \in DOMAIN result.headers :
              result.headers[k].day = getDate(request.fromDateStr + k - 1)
        /\ \A bar \in TimelineBars :
              Overlaps(bar.start, bar.end) =>
                  /\ bar.startDay = Max(bar.start, request.fromDateStr)
                                      - request.fromDateStr
                  /\ bar.endDay - 1 = Min(bar.end, request.toDateStr)
                                        - request.fromDateStr

C23_OneEntryPerEmployee ==
    \A c \in Returned :
        (calls[c].result.returned /\ calls[c].result.view = "monthly") =>
            LET dayMap == buildVacationDayMap(calls[c].request.vacations, tz)
            IN  \A key \in DOMAIN dayMap :
                    \A i, j \in DOMAIN dayMap[key] :
                        dayMap[key][i].empId = dayMap[key][j].empId => i = j

(***************************************************************************)
(* The HTTP API (Go): handlers run concurrently, one goroutine per         *)
(* request, and every repository call is one statement on the database.    *)
(* A row is its primary key; a vacation row also has its employee_id.      *)
(***************************************************************************)
HandlerIds == 1..MaxHandlers
RowIds == 1..MaxRows

NoHandler == [kind |-> "", pc |-> "idle", id |-> 0, status |-> 0]

\* the primary key SQLite gives a new row: one more than the largest
NextRowId(ids) ==
    IF ids = {} THEN 1
    ELSE 1 + CHOOSE m \in ids : \A i \in ids : i <= m

VacationRowIds == {v.id : v \in db.vacations}

Responds(h, kind, id, status) ==
    handlers' = [handlers EXCEPT ![h] =
                    [kind |-> kind, pc |-> "done", id |-> id, status |-> status]]

ApiStep == UNCHANGED <<renderVars, callVars, storeVars, holidayVars, appVars>>
              /\ UNCHANGED foreignKeys

\* POST /api/employees
EmployeeCreate(h) ==
    /\ handlers[h].pc = "idle"
    /\ NextRowId(db.employees) \in RowIds
    /\ db' = [db EXCEPT !.employees = @ \cup {NextRowId(db.employees)}]
    /\ Responds(h, "EmployeeCreate", NextRowId(db.employees), 201)
    /\ ApiStep

\* POST /api/vacations: employeeRepo.GetByID
VacationCreateChecks(h, employeeId) ==
    /\ handlers[h].pc = "idle"
    /\ IF employeeId \in db.employees
       THEN handlers' = [handlers EXCEPT ![h] =
                [kind |-> "VacationCreate", pc |-> "create", id |-> employeeId,
                 status |-> 0]]
       ELSE Responds(h, "VacationCreate", employeeId, 400)
    /\ UNCHANGED db
    /\ ApiStep

\* POST /api/vacations: h.repo.Create
VacationCreateInserts(h) ==
    /\ handlers[h].pc = "create"
    /\ NextRowId(VacationRowIds) \in RowIds
    /\ IF foreignKeys /\ handlers[h].id \notin db.employees
       THEN /\ Responds(h, "VacationCreate", handlers[h].id, 500)
            /\ UNCHANGED db
       ELSE /\ db' = [db EXCEPT !.vacations = @ \cup
                        {[id |-> NextRowId(VacationRowIds),
                          employee_id |-> handlers[h].id]}]
            /\ Responds(h, "VacationCreate", handlers[h].id, 201)
    /\ ApiStep

\* DELETE /api/employees/:id: vacationRepo.DeleteByEmployeeID
EmployeeDeleteVacations(h, id) ==
    /\ handlers[h].pc = "idle"
    /\ db' = [db EXCEPT !.vacations = {v \in @ : v.employee_id # id}]
    /\ handlers' = [handlers EXCEPT ![h] =
            [kind |-> "EmployeeDelete", pc |-> "delete", id |-> id, status |-> 0]]
    /\ ApiStep

\* DELETE /api/employees/:id: h.repo.Delete
EmployeeDeleteEmployee(h) ==
    /\ handlers[h].pc = "delete"
    /\ IF foreignKeys /\ \E v \in db.vacations : v.employee_id = handlers[h].id
       THEN /\ Responds(h, "EmployeeDelete", handlers[h].id, 500)
            /\ UNCHANGED db
       ELSE /\ db' = [db EXCEPT !.employees = @ \ {handlers[h].id}]
            /\ Responds(h, "EmployeeDelete", handlers[h].id, 200)
    /\ ApiStep

\* DELETE /api/vacations/:id
VacationDelete(h, id) ==
    /\ handlers[h].pc = "idle"
    /\ db' = [db EXCEPT !.vacations = {v \in @ : v.id # id}]
    /\ Responds(h, "VacationDelete", id, 200)
    /\ ApiStep

InitApi ==
    /\ tz = "UTC"
    /\ request = NoRequest
    /\ colorArg = <<>>
    /\ dayEntries = <<>>
    /\ pc = "call"
    /\ result = NoResult
    /\ FontsPrepared
    /\ EmptyStore
    /\ NoPage
    /\ NoHolidayCalls
    /\ foreignKeys \in BOOLEAN
    /\ db = [employees |-> {}, vacations |-> {}]
    /\ handlers = [h \in HandlerIds |-> NoHandler]

NextApi ==
    \E h \in HandlerIds :
        \/ EmployeeCreate(h)
        \/ \E employeeId \in RowIds : VacationCreateChecks(h, employeeId)
        \/ VacationCreateInserts(h)
        \/ \E id \in RowIds : EmployeeDeleteVacations(h, id)
        \/ EmployeeDeleteEmployee(h)
        \/ \E id \in RowIds : VacationDelete(h, id)

SpecApi == InitApi /\ [][NextApi]_vars

\* C29: under any interleaving of the HTTP API's handlers every stored
\* vacation references an employee that exists.
C29_VacationsHaveEmployee ==
    \A v \in db.vacations : v.employee_id \in db.employees

EmployeeIds(store) == {store.employees[i].id : i \in DOMAIN store.employees}
VacationIds(store) == {store.vacations[i].id : i \in DOMAIN store.vacations}

DistinctIds(store) ==
    /\ Cardinality(EmployeeIds(store)) = Len(store.employees)
    /\ Cardinality(VacationIds(store)) = Len(store.vacations)

\* C26: after every store operation (create, update and delete of employees
\* and vacations, clearAllData, and the import of a backup that
\* validateImportData accepts) the stored employee ids are pairwise
\* distinct and the stored vacation ids are pairwise distinct, and a create
\* never returns an id that a stored entity of that kind has.
C26_IdsStayDistinct ==
    [][(DistinctIds(storage) /\ storeOp'.op # "importData") =>
          /\ DistinctIds(storage')
          /\ (storeOp'.op = "createEmployee") =>
                storeOp'.id \notin EmployeeIds(storage)
          /\ (storeOp'.op = "createVacation" /\ storeOp'.returned) =>
                storeOp'.id \notin VacationIds(storage)]_vars

Submitted == {c \in CallIds : calls[c].pc # "idle"}
LastSubmitted == CHOOSE c \in Submitted : \A d \in Submitted : d <= c

\* C30: when generate requests overlap, once all of them have completed the
\* preview and the download link belong to the most recently submitted
\* request; and whenever a canvas is shown, the link's data URL and file
\* name are those of that canvas and of the request it was drawn for.
C30_LastRequestWins ==
    /\ (Submitted # {} /\ \A c \in Submitted : calls[c].pc = "done") =>
          /\ preview.call = LastSubmitted
          /\ (preview.kind = "canvas") =>
                downloadLink.download = DownloadName(calls[LastSubmitted].request)
    /\ (preview.kind = "canvas") =>
          /\ downloadLink.href = preview.canvas
          /\ downloadLink.download = DownloadName(calls[preview.call].request)

=============================================================================
